---- MODULE Spec2Model ----
(***************************************************************************)
(* A model of JobBot's Job Relevance & Routing Engine (src/filters.py) and  *)
(* of its Contact Extractor (src/emailer.py).                              *)
(*                                                                         *)
(* Texts are TLA+ strings handled character by character (Len, SubSeq,     *)
(* \o), so keyword tests are real substring tests and the regular          *)
(* expressions of extract_salary / calculate_experience_match are matched  *)
(* the way Python's re module matches them.  Python values that a job      *)
(* record may hold are tagged records [t |-> type, v |-> text].             *)
(***************************************************************************)
EXTENDS Integers, Sequences, FiniteSets, TLC

(***************************************************************************)
(* Python values                                                           *)
(***************************************************************************)
Str(s) == [t |-> "str", v |-> s]
PyNone == [t |-> "NoneType", v |-> "None"]
PyInt(n) == [t |-> "int", v |-> ToString(n)]

\* bool(x): the truth value Python gives a value in `if not x`.
Truthy(x) ==
    CASE x.t = "str" -> x.v # ""
      [] x.t = "int" -> x.v # "0"
      [] OTHER -> FALSE

\* f"{x}": the text an f-string inserts for a value.
Format(x) == x.v

\* The text of the AttributeError raised by x.lower() / x.get on a value
\* that has no such method.
AttributeError(x, attr) ==
    "'" \o x.t \o "' object has no attribute '" \o attr \o "'"

\* str(KeyError(k)) is the repr of the key.
KeyError(k) == "'" \o k \o "'"

(***************************************************************************)
(* Characters and strings                                                  *)
(***************************************************************************)
\* s[i-1:i]: the i-th character, or "" past the end
At(s, i) == IF i >= 1 /\ i <= Len(s) THEN SubSeq(s, i, i) ELSE ""

Digits == {"0", "1", "2", "3", "4", "5", "6", "7", "8", "9"}
IsDigit(c) == c \in Digits
\* what \s matches among the characters the inputs use
IsSpace(c) == c \in {" ", "\t", "\n"}

LowerChar(c) ==
    CASE c = "A" -> "a" [] c = "B" -> "b" [] c = "C" -> "c" [] c = "D" -> "d"
      [] c = "E" -> "e" [] c = "F" -> "f" [] c = "G" -> "g" [] c = "H" -> "h"
      [] c = "I" -> "i" [] c = "J" -> "j" [] c = "K" -> "k" [] c = "L" -> "l"
      [] c = "M" -> "m" [] c = "N" -> "n" [] c = "O" -> "o" [] c = "P" -> "p"
      [] c = "Q" -> "q" [] c = "R" -> "r" [] c = "S" -> "s" [] c = "T" -> "t"
      [] c = "U" -> "u" [] c = "V" -> "v" [] c = "W" -> "w" [] c = "X" -> "x"
      [] c = "Y" -> "y" [] c = "Z" -> "z" [] OTHER -> c

\* str.lower()
RECURSIVE Lower(_)
Lower(s) ==
    IF Len(s) <= 1 THEN LowerChar(s)
    ELSE LET h == Len(s) \div 2 IN
         Lower(SubSeq(s, 1, h)) \o Lower(SubSeq(s, h + 1, Len(s)))

\* s[i:].startswith(k), positions counted from 1
StartsAt(s, i, k) == i + Len(k) - 1 <= Len(s) /\ SubSeq(s, i, i + Len(k) - 1) = k

\* k in s
Contains(k, s) == \E i \in 1..(Len(s) - Len(k) + 1) : StartsAt(s, i, k)

\* the keywords of a list that occur in the text, in list order
RECURSIVE Matched(_, _)
Matched(keywords, text) ==
    IF keywords = <<>> THEN <<>>
    ELSE (IF Contains(Head(keywords), text) THEN <<Head(keywords)>> ELSE <<>>)
         \o Matched(Tail(keywords), text)

\* repr() of a list of strings, as an f-string prints it
RECURSIVE ReprItems(_)
ReprItems(l) ==
    IF l = <<>> THEN ""
    ELSE "'" \o Head(l) \o "'" \o (IF Len(l) > 1 THEN ", " ELSE "") \o ReprItems(Tail(l))

ReprList(l) == "[" \o ReprItems(l) \o "]"

\* the position after the longest run of whitespace / of digits starting at i
RECURSIVE SkipSpace(_, _)
SkipSpace(s, i) == IF i <= Len(s) /\ IsSpace(At(s, i)) THEN SkipSpace(s, i + 1) ELSE i

RECURSIVE SkipDigits(_, _)
SkipDigits(s, i) == IF i <= Len(s) /\ IsDigit(At(s, i)) THEN SkipDigits(s, i + 1) ELSE i

\* literal? : the position after an optional literal
SkipOpt(s, i, k) == IF StartsAt(s, i, k) THEN i + Len(k) ELSE i

DigitVal(c) ==
    CASE c = "0" -> 0 [] c = "1" -> 1 [] c = "2" -> 2 [] c = "3" -> 3 [] c = "4" -> 4
      [] c = "5" -> 5 [] c = "6" -> 6 [] c = "7" -> 7 [] c = "8" -> 8 [] c = "9" -> 9

\* int(s) for a string of digits
RECURSIVE ParseInt(_)
ParseInt(s) ==
    IF s = "" THEN 0
    ELSE 10 * ParseInt(SubSeq(s, 1, Len(s) - 1)) + DigitVal(At(s, Len(s)))


Min(S) == CHOOSE m \in S : \A n \in S : m <= n

\* the smaller / larger of two numbers: Python's min(), max() on a pair
Min2(a, b) == IF a <= b THEN a ELSE b
Max2(a, b) == IF a >= b THEN a ELSE b

(***************************************************************************)
(* Floats.  A float is held as an integer number of thousandths; the       *)
(* inputs carry at most two fractional digits, so float(), min(), max()    *)
(* and sum()/2 are exact.                                                  *)
(***************************************************************************)
FloatScale == 10 * 10 * 10

\* position of the first "." of s, or 0
DotPos(s) ==
    LET D == {i \in 1..Len(s) : At(s, i) = "."} IN IF D = {} THEN 0 ELSE Min(D)

\* float(s) for s matching \d+(?:\.\d+)?
ParseFloat(s) ==
    LET d == DotPos(s) IN
    IF d = 0 THEN ParseInt(s) * FloatScale
    ELSE ParseInt(SubSeq(s, 1, d - 1)) * FloatScale
         + ParseInt(SubSeq(SubSeq(s, d + 1, Len(s)) \o "000", 1, 3))

\* a number from the configuration file (an integer count of lakhs) as a float
FromInt(n) == n * FloatScale

\* repr() of a float, as an f-string prints it: 3.0, 6.5, 6.25
FloatRepr(f) ==
    LET whole == f \div FloatScale
        frac == f % FloatScale
        d3 == (IF frac < 100 THEN "0" ELSE "") \o (IF frac < 10 THEN "0" ELSE "")
              \o ToString(frac)
        cut == IF frac % 100 = 0 THEN 1 ELSE IF frac % 10 = 0 THEN 2 ELSE 3
    IN ToString(whole) \o "." \o SubSeq(d3, 1, cut)

\* x and x.replace('.', '').isdigit()
IsNumeric(s) ==
    /\ s # ""
    /\ \A i \in 1..Len(s) : IsDigit(At(s, i)) \/ At(s, i) = "."
    /\ \E i \in 1..Len(s) : IsDigit(At(s, i))

(***************************************************************************)
(* Regular expressions.  A match is [ok, groups, tuple]: groups are the    *)
(* captured texts ("" for a group that took no part), tuple says whether   *)
(* re.findall reports the match as a tuple (two groups) or as a string.    *)
(* Every pattern of the source is deterministic once its greedy choices    *)
(* are made, so a pattern is matched at a position by scanning forward.    *)
(***************************************************************************)
NoMatch == [ok |-> FALSE, groups |-> <<>>, tuple |-> FALSE]
Match1(g) == [ok |-> TRUE, groups |-> <<g>>, tuple |-> FALSE]
Match2(g1, g2) == [ok |-> TRUE, groups |-> <<g1, g2>>, tuple |-> TRUE]

\* re.findall(p, s)[0], given the match of p at every position of s: the
\* match at the leftmost position that has one
Leftmost(at) ==
    LET I == {i \in DOMAIN at : at[i].ok} IN IF I = {} THEN NoMatch ELSE at[Min(I)]

\* the position after \d+(?:\.\d+)? matched greedily at i (i itself: no match)
NumEnd(s, i) ==
    LET j == SkipDigits(s, i) IN
    IF j > i /\ At(s, j) = "." /\ IsDigit(At(s, j + 1)) THEN SkipDigits(s, j + 1) ELSE j

\* (\d+(?:\.\d+)?)\s*-?\s*(\d+(?:\.\d+)?)?\s*  at i
NumRange(s, i) ==
    LET e1 == NumEnd(s, i)
        c == SkipSpace(s, SkipOpt(s, SkipSpace(s, e1), "-"))
        e2 == NumEnd(s, c)
    IN [ok |-> e1 > i, g1 |-> SubSeq(s, i, e1 - 1), g2 |-> SubSeq(s, c, e2 - 1),
        end |-> SkipSpace(s, e2)]

(***************************************************************************)
(* extract_salary: the eight patterns, in list order                       *)
(***************************************************************************)
\* the three characters that open the second pattern in the source file
RupeeMark == "<rupee>"

\* the match of  prefix (number range) unit,  given whether the prefix is
\* there and the range r read after it
RangeMatch(s, prefixed, r, unit) ==
    IF prefixed /\ r.ok /\ StartsAt(s, r.end, unit) THEN Match2(r.g1, r.g2) ELSE NoMatch

\* prefix:?\s*  or  prefix\s*  at i: the position after it
AfterPrefix(s, i, prefix, colon) ==
    IF prefix = "" THEN i
    ELSE SkipSpace(s, IF colon THEN SkipOpt(s, i + Len(prefix), ":") ELSE i + Len(prefix))

SalaryRangeAt(s, i, prefix, colon, unit) ==
    RangeMatch(s, StartsAt(s, i, prefix), NumRange(s, AfterPrefix(s, i, prefix, colon)), unit)

\* (\d+(?:\.\d+)?)\s*-?\s*(\d+(?:\.\d+)?)?\s*lpa
SalaryP1(s, i) == SalaryRangeAt(s, i, "", FALSE, "lpa")

\* <rupee>\s*(\d+(?:\.\d+)?)\s*-?\s*(\d+(?:\.\d+)?)?\s*lakh
SalaryP2(s, i) == SalaryRangeAt(s, i, RupeeMark, FALSE, "lakh")

\* lakhs?\s*per\s*annum  after the range r
PerAnnum(s, r) ==
    LET a == SkipSpace(s, SkipOpt(s, r.end + 4, "s")) IN
    IF r.ok /\ StartsAt(s, r.end, "lakh") /\ StartsAt(s, a, "per")
       /\ StartsAt(s, SkipSpace(s, a + 3), "annum")
    THEN Match2(r.g1, r.g2) ELSE NoMatch

\* (\d+(?:\.\d+)?)\s*-?\s*(\d+(?:\.\d+)?)?\s*lakhs?\s*per\s*annum
SalaryP3(s, i) == PerAnnum(s, NumRange(s, i))

\* salary:?\s*(\d+(?:\.\d+)?)\s*-?\s*(\d+(?:\.\d+)?)?\s*lpa
SalaryP4(s, i) == SalaryRangeAt(s, i, "salary", TRUE, "lpa")

\* ctc:?\s*(\d+(?:\.\d+)?)\s*-?\s*(\d+(?:\.\d+)?)?\s*lpa
SalaryP5(s, i) == SalaryRangeAt(s, i, "ctc", TRUE, "lpa")

\* package:?\s*(\d+(?:\.\d+)?)\s*-?\s*(\d+(?:\.\d+)?)?\s*lpa
SalaryP6(s, i) == SalaryRangeAt(s, i, "package", TRUE, "lpa")

\* (\d+(?:\.\d+)?)\s*to\s*(\d+(?:\.\d+)?)\s*lpa
SalaryP7(s, i) ==
    LET e1 == NumEnd(s, i)
        a == SkipSpace(s, e1)
        c == SkipSpace(s, a + 2)
        e2 == NumEnd(s, c)
    IN IF e1 > i /\ StartsAt(s, a, "to") /\ e2 > c /\ StartsAt(s, SkipSpace(s, e2), "lpa")
       THEN Match2(SubSeq(s, i, e1 - 1), SubSeq(s, c, e2 - 1)) ELSE NoMatch

\* upto?\s*(\d+(?:\.\d+)?)\s*lpa
SalaryP8(s, i) ==
    LET c == SkipSpace(s, SkipOpt(s, i + 3, "o"))
        e == NumEnd(s, c)
    IN IF StartsAt(s, i, "upt") /\ e > c /\ StartsAt(s, SkipSpace(s, e), "lpa")
       THEN Match1(SubSeq(s, c, e - 1)) ELSE NoMatch

NumSalaryPatterns == 8

\* patterns[k] matched at position i of the text
SalaryAt(k, s, i) ==
    CASE k = 1 -> SalaryP1(s, i)
      [] k = 2 -> SalaryP2(s, i)
      [] k = 3 -> SalaryP3(s, i)
      [] k = 4 -> SalaryP4(s, i)
      [] k = 5 -> SalaryP5(s, i)
      [] k = 6 -> SalaryP6(s, i)
      [] k = 7 -> SalaryP7(s, i)
      [] k = 8 -> SalaryP8(s, i)

\* re.findall(patterns[k], text), reduced to its first element
SalaryFindall(k, text) == Leftmost([i \in 1..Len(text) |-> SalaryAt(k, text, i)])

SalaryInfo(lo, hi, avg, found) ==
    [min_salary |-> lo, max_salary |-> hi, average_salary |-> avg, found |-> found]

\* [float(x) for x in matches[0] if x and x.replace('.', '').isdigit()]
RECURSIVE Salaries(_)
Salaries(groups) ==
    IF groups = <<>> THEN <<>>
    ELSE (IF IsNumeric(Head(groups)) THEN <<ParseFloat(Head(groups))>> ELSE <<>>)
         \o Salaries(Tail(groups))

RECURSIVE SalaryFrom(_, _)

\* SalaryOfRange reporting the first number of a range only
SalaryOfRangeFirst(k, text, salaries) ==
    IF Len(salaries) >= 1
    THEN SalaryInfo(salaries[1], salaries[1], salaries[1], TRUE)
    ELSE SalaryFrom(k + 1, text)

\* the range branch: two salaries, one salary, or on to the next pattern
SalaryOfRange(k, text, salaries) ==
    IF Len(salaries) = 2
    THEN SalaryInfo(Min2(salaries[1], salaries[2]), Max2(salaries[1], salaries[2]),
                    (salaries[1] + salaries[2]) \div 2, TRUE)
    ELSE IF Len(salaries) = 1
         THEN SalaryInfo(salaries[1], salaries[1], salaries[1], TRUE)
         ELSE SalaryFrom(k + 1, text)

\* the single-value branch
SalaryOfValue(salary) == SalaryInfo(salary, salary, salary, TRUE)

\* the body of the loop for pattern k, given its first match
SalaryOfMatch(k, text, m) ==
    IF ~m.ok THEN SalaryFrom(k + 1, text)
    ELSE IF m.tuple THEN SalaryOfRange(k, text, Salaries(m.groups))
         ELSE SalaryOfValue(ParseFloat(m.groups[1]))

\* the loop over the patterns from pattern k on
SalaryFrom(k, text) ==
    IF k > NumSalaryPatterns THEN SalaryInfo(0, 0, 0, FALSE)
    ELSE SalaryOfMatch(k, text, SalaryFindall(k, text))

\* JobFilter.extract_salary(job_text)
extract_salary(job_text) == SalaryFrom(1, Lower(job_text))

(***************************************************************************)
(* calculate_experience_match: the five patterns, in list order            *)
(***************************************************************************)
\* \s*years?  at i: the position after it, or 0
YearsEnd(s, i) ==
    LET a == SkipSpace(s, i) IN
    IF StartsAt(s, a, "year") THEN SkipOpt(s, a + 4, "s") ELSE 0

\* (\d+)\+?\s*years?\s*(?:of\s*)?experience
ExpP1(s, i) ==
    LET e == SkipDigits(s, i)
        y == YearsEnd(s, SkipOpt(s, e, "+"))
        a == SkipSpace(s, y)
        b == IF StartsAt(s, a, "of") THEN SkipSpace(s, a + 2) ELSE a
    IN IF e > i /\ y > 0 /\ StartsAt(s, b, "experience")
       THEN Match1(SubSeq(s, i, e - 1)) ELSE NoMatch

\* (\d+) sep (\d+)\s*years?  with sep = \s*to\s* or \s*-\s*
ExpRangeAt(s, i, sep) ==
    LET e1 == SkipDigits(s, i)
        a == SkipSpace(s, e1)
        c == SkipSpace(s, a + Len(sep))
        e2 == SkipDigits(s, c)
    IN IF e1 > i /\ StartsAt(s, a, sep) /\ e2 > c /\ YearsEnd(s, e2) > 0
       THEN Match2(SubSeq(s, i, e1 - 1), SubSeq(s, c, e2 - 1)) ELSE NoMatch

\* (\d+)\s*to\s*(\d+)\s*years?
ExpP2(s, i) == ExpRangeAt(s, i, "to")

\* (\d+)\s*years?  at c
ExpAfterAt(s, c) ==
    LET e == SkipDigits(s, c) IN
    IF e > c /\ YearsEnd(s, e) > 0 THEN Match1(SubSeq(s, c, e - 1)) ELSE NoMatch

\* minimum\s*(\d+)\s*years?
ExpP3(s, i) ==
    IF StartsAt(s, i, "minimum") THEN ExpAfterAt(s, SkipSpace(s, i + 7)) ELSE NoMatch

\* at\s*least\s*(\d+)\s*years?
ExpP4(s, i) ==
    LET a == SkipSpace(s, i + 2) IN
    IF StartsAt(s, i, "at") /\ StartsAt(s, a, "least")
    THEN ExpAfterAt(s, SkipSpace(s, a + 5)) ELSE NoMatch

\* (\d+)\s*-\s*(\d+)\s*years?
ExpP5(s, i) == ExpRangeAt(s, i, "-")

NumExpPatterns == 5

\* exp_patterns[k] matched at position i of the text
ExpAt(k, s, i) ==
    CASE k = 1 -> ExpP1(s, i)
      [] k = 2 -> ExpP2(s, i)
      [] k = 3 -> ExpP3(s, i)
      [] k = 4 -> ExpP4(s, i)
      [] k = 5 -> ExpP5(s, i)

ExpFindall(k, text) == Leftmost([i \in 1..Len(text) |-> ExpAt(k, text, i)])

\* actual_experience = 1.5, in tenths of a year
ActualExperienceTenths == 15

\* min(exp_nums) if exp_nums else 0, for the tuple of a range match;
\* int(matches[0]) otherwise
RequiredExp(m) ==
    IF m.tuple
    THEN LET N == {ParseInt(m.groups[j]) : j \in {j \in 1..Len(m.groups) : m.groups[j] # ""}}
         IN IF N = {} THEN 0 ELSE Min(N)
    ELSE ParseInt(m.groups[1])

\* ExperienceVerdict without the year of flexibility
ExperienceVerdictStrict(required_exp) ==
    IF 10 * required_exp <= ActualExperienceTenths
    THEN [is_match |-> TRUE, required_exp |-> required_exp,
          reason |-> "Experience requirement (" \o ToString(required_exp)
                     \o " years) matches profile"]
    ELSE [is_match |-> FALSE, required_exp |-> required_exp,
          reason |-> "Requires " \o ToString(required_exp)
                     \o " years, profile has 1.5"]

\* required_exp <= actual_experience + 1, and the result either way
ExperienceVerdict(required_exp) ==
    IF 10 * required_exp <= ActualExperienceTenths + 10
    THEN [is_match |-> TRUE, required_exp |-> required_exp,
          reason |-> "Experience requirement (" \o ToString(required_exp)
                     \o " years) matches profile"]
    ELSE [is_match |-> FALSE, required_exp |-> required_exp,
          reason |-> "Requires " \o ToString(required_exp)
                     \o " years, profile has 1.5"]

RECURSIVE ExperienceFrom(_, _)

\* the body of the loop for pattern k, given its first match
ExperienceOfMatch(k, text, m) ==
    IF ~m.ok THEN ExperienceFrom(k + 1, text) ELSE ExperienceVerdict(RequiredExp(m))

\* the loop over the patterns from pattern k on
ExperienceFrom(k, text) ==
    IF k > NumExpPatterns
    THEN [is_match |-> TRUE, required_exp |-> 0,
          reason |-> "No specific experience requirement mentioned"]
    ELSE ExperienceOfMatch(k, text, ExpFindall(k, text))

(***************************************************************************)
(* Exceptions: an operation that raises yields [exc |-> text of the fault] *)
(***************************************************************************)
Raise(e) == [exc |-> e]
Raised(r) == "exc" \in DOMAIN r
\* the outcome of an operation that returns a plain text
Return(v) == [value |-> v]

\* JobFilter.calculate_experience_match(job_description): the argument is the
\* value found in the job record; .lower() fails on anything but a text
calculate_experience_match(job_description) ==
    IF job_description.t # "str" THEN Raise(AttributeError(job_description, "lower"))
    ELSE ExperienceFrom(1, Lower(job_description.v))

(***************************************************************************)
(* JobFilter.__init__: the object built from the parsed config file, or    *)
(* the KeyError that ends construction                                     *)
(***************************************************************************)
\* max_salary_lpa when the configuration does not give one
DefaultMaxSalary == 15

JobFilterNew(config) ==
    IF "job_preferences" \notin DOMAIN config THEN Raise(KeyError("job_preferences"))
    ELSE IF "roles" \notin DOMAIN config["job_preferences"] THEN Raise(KeyError("roles"))
    ELSE IF "min_salary_lpa" \notin DOMAIN config["job_preferences"]
         THEN Raise(KeyError("min_salary_lpa"))
    ELSE IF "locations" \notin DOMAIN config["job_preferences"]
         THEN Raise(KeyError("locations"))
    ELSE IF "skills" \notin DOMAIN config THEN Raise(KeyError("skills"))
    ELSE IF "keywords" \notin DOMAIN config THEN Raise(KeyError("keywords"))
    ELSE [config |-> config,
          target_roles |-> config["job_preferences"]["roles"],
          min_salary |-> config["job_preferences"]["min_salary_lpa"],
          max_salary |-> IF "max_salary_lpa" \in DOMAIN config["job_preferences"]
                         THEN config["job_preferences"]["max_salary_lpa"]
                         ELSE DefaultMaxSalary,
          target_locations |-> config["job_preferences"]["locations"],
          skills |-> config["skills"],
          keywords |-> config["keywords"]]

(***************************************************************************)
(* JobFilter.is_relevant_role                                              *)
(***************************************************************************)
\* RelevanceScore without the cap at 100
RelevanceScoreUncapped(positive_matches, fresher_matches) ==
    positive_matches * 10 + fresher_matches * 5

\* min(100, positive_matches * 10 + fresher_matches * 5)
RelevanceScore(positive_matches, fresher_matches) ==
    Min2(100, positive_matches * 10 + fresher_matches * 5)

\* the least number of positive keywords a relevant text has
MinPositiveMatches == 2

\* RoleDecision letting a single negative keyword pass
RoleDecisionTwoNegative(matched_keywords, negative_keywords, fresher_keywords) ==
    IF Len(negative_keywords) > 1 /\ Len(fresher_keywords) = 0
    THEN [is_relevant |-> FALSE,
          reason |-> "High experience requirement: " \o ReprList(negative_keywords),
          matched_keywords |-> matched_keywords, score |-> 0]
    ELSE [is_relevant |-> TRUE,
          reason |-> "Good match with " \o ToString(Len(matched_keywords))
                     \o " QA keywords",
          matched_keywords |-> matched_keywords,
          fresher_friendly |-> Len(fresher_keywords) > 0,
          score |-> RelevanceScore(Len(matched_keywords), Len(fresher_keywords))]

\* RoleDecision without the fresher-friendly override
RoleDecisionNoOverride(matched_keywords, negative_keywords, fresher_keywords) ==
    IF Len(negative_keywords) > 0
    THEN [is_relevant |-> FALSE,
          reason |-> "High experience requirement: " \o ReprList(negative_keywords),
          matched_keywords |-> matched_keywords, score |-> 0]
    ELSE [is_relevant |-> TRUE,
          reason |-> "Good match with " \o ToString(Len(matched_keywords))
                     \o " QA keywords",
          matched_keywords |-> matched_keywords,
          fresher_friendly |-> Len(fresher_keywords) > 0,
          score |-> RelevanceScore(Len(matched_keywords), Len(fresher_keywords))]

\* the decision logic, given the keywords of each list found in the text
RoleDecision(matched_keywords, negative_keywords, fresher_keywords) ==
    IF Len(negative_keywords) > 0 /\ Len(fresher_keywords) = 0
    THEN [is_relevant |-> FALSE,
          reason |-> "High experience requirement: " \o ReprList(negative_keywords),
          matched_keywords |-> matched_keywords, score |-> 0]
    ELSE [is_relevant |-> TRUE,
          reason |-> "Good match with " \o ToString(Len(matched_keywords))
                     \o " QA keywords",
          matched_keywords |-> matched_keywords,
          fresher_friendly |-> Len(fresher_keywords) > 0,
          score |-> RelevanceScore(Len(matched_keywords), Len(fresher_keywords))]

\* RoleOfPositive content with a single positive keyword
RoleOfPositiveSingle(self, text, matched_keywords) ==
    IF Len(matched_keywords) < 1
    THEN [is_relevant |-> FALSE, reason |-> "Insufficient QA/Testing keywords",
          matched_keywords |-> matched_keywords, score |-> 0]
    ELSE IF "negative" \notin DOMAIN self.keywords THEN Raise(KeyError("negative"))
    ELSE IF "fresher_friendly" \notin DOMAIN self.keywords
         THEN Raise(KeyError("fresher_friendly"))
    ELSE RoleDecision(matched_keywords,
                      Matched(self.keywords["negative"], text),
                      Matched(self.keywords["fresher_friendly"], text))

\* the part of is_relevant_role after the positive keywords are counted
RoleOfPositive(self, text, matched_keywords) ==
    IF Len(matched_keywords) < MinPositiveMatches
    THEN [is_relevant |-> FALSE, reason |-> "Insufficient QA/Testing keywords",
          matched_keywords |-> matched_keywords, score |-> 0]
    ELSE IF "negative" \notin DOMAIN self.keywords THEN Raise(KeyError("negative"))
    ELSE IF "fresher_friendly" \notin DOMAIN self.keywords
         THEN Raise(KeyError("fresher_friendly"))
    ELSE RoleDecision(matched_keywords,
                      Matched(self.keywords["negative"], text),
                      Matched(self.keywords["fresher_friendly"], text))

\* the part of is_relevant_role that works on the lower-cased text
RoleOfText(self, text) ==
    IF "positive" \notin DOMAIN self.keywords THEN Raise(KeyError("positive"))
    ELSE RoleOfPositive(self, text, Matched(self.keywords["positive"], text))

\* f"{job_title} {job_description}".lower()
JobText(job_title, job_description) ==
    Lower(Format(job_title) \o " " \o Format(job_description))

is_relevant_role(self, job_title, job_description) ==
    RoleOfText(self, JobText(job_title, job_description))

(***************************************************************************)
(* JobFilter.is_location_match                                             *)
(***************************************************************************)
remote_indicators ==
    <<"remote", "work from home", "wfh", "anywhere", "virtual",
      "distributed", "home based", "telecommute">>

\* str.split(): the maximal runs of non-whitespace characters
RECURSIVE SkipWord(_, _)
SkipWord(s, i) == IF i <= Len(s) /\ ~IsSpace(At(s, i)) THEN SkipWord(s, i + 1) ELSE i

RECURSIVE SplitFrom(_, _)
SplitFrom(s, i) ==
    LET a == SkipSpace(s, i)
        b == SkipWord(s, a)
    IN IF a > Len(s) THEN <<>> ELSE <<SubSeq(s, a, b - 1)>> \o SplitFrom(s, b)

Split(s) == SplitFrom(s, 1)

\* any(word in text for word in words)
AnyWordIn(words, text) == \E w \in 1..Len(words) : Contains(words[w], text)

\* the elements of a list for which the test holds, in list order
RECURSIVE Select(_, _)
Select(l, test) ==
    IF l = <<>> THEN <<>>
    ELSE (IF test[1] THEN <<Head(l)>> ELSE <<>>) \o Select(Tail(l), Tail(test))

\* LocationDecision without the loop over the words of the target locations
LocationDecisionWholeNames(location, direct, remote, partial) ==
    IF direct # <<>>
    THEN [is_match |-> TRUE, reason |-> "Matches preferred location: " \o direct[1]]
    ELSE IF remote # <<>>
    THEN [is_match |-> TRUE, reason |-> "Remote work: " \o remote[1]]
    ELSE [is_match |-> FALSE,
          reason |-> "Location " \o location \o " not in preferred list"]

\* the three loops, given the entries each loop would return on
LocationDecision(location, direct, remote, partial) ==
    IF direct # <<>>
    THEN [is_match |-> TRUE, reason |-> "Matches preferred location: " \o direct[1]]
    ELSE IF remote # <<>>
    THEN [is_match |-> TRUE, reason |-> "Remote work: " \o remote[1]]
    ELSE IF partial # <<>>
    THEN [is_match |-> TRUE, reason |-> "Partial location match: " \o partial[1]]
    ELSE [is_match |-> FALSE,
          reason |-> "Location " \o location \o " not in preferred list"]

LocationOfText(self, location, location_lower) ==
    LocationDecision(location,
        Select(self.target_locations,
               [i \in 1..Len(self.target_locations) |->
                   Contains(Lower(self.target_locations[i]), location_lower)]),
        Select(remote_indicators,
               [i \in 1..Len(remote_indicators) |->
                   Contains(remote_indicators[i], location_lower)]),
        Select(self.target_locations,
               [i \in 1..Len(self.target_locations) |->
                   AnyWordIn(Split(Lower(self.target_locations[i])), location_lower)]))

is_location_match(self, location) ==
    IF ~Truthy(location)
    THEN [is_match |-> TRUE, reason |-> "No location specified (assuming remote)"]
    ELSE IF location.t # "str" THEN Raise(AttributeError(location, "lower"))
    ELSE LocationOfText(self, location.v, Lower(location.v))

(***************************************************************************)
(* JobFilter.select_resume                                                 *)
(***************************************************************************)
automation_keywords ==
    <<"selenium", "pytest", "automation framework", "ci/cd", "jenkins",
      "api testing", "python automation", "test framework", "automation engineer",
      "sdet", "technical testing", "test automation", "framework development",
      "scripting", "api automation", "regression automation">>

entry_keywords ==
    <<"fresher", "entry level", "trainee", "graduate", "0-1 year",
      "0-2 year", "manual testing", "basic", "beginner", "new grad",
      "associate", "junior", "starting career">>

advanced_project_keywords ==
    <<"framework", "tool development", "python", "automation tool",
      "testing utility", "performance testing", "load testing">>

\* sum(1 for keyword in keywords if keyword in text)
Score(keywords, text) == Len(Matched(keywords, text))

AutomationThreshold == 3
AdvancedThreshold == 2
EntryThreshold == 2

\* ResumeKey testing the entry-level score first
ResumeKeyEntryFirst(automation_score, entry_score, advanced_score) ==
    IF entry_score >= EntryThreshold THEN "qa_entry"
    ELSE IF automation_score >= AutomationThreshold
            \/ advanced_score >= AdvancedThreshold
    THEN "qa_automation"
    ELSE "qa_general"

\* the key of resume_files the decision logic picks
ResumeKey(automation_score, entry_score, advanced_score) ==
    IF automation_score >= AutomationThreshold \/ advanced_score >= AdvancedThreshold
    THEN "qa_automation"
    ELSE IF entry_score >= EntryThreshold THEN "qa_entry" ELSE "qa_general"

\* self.config['resume_files'][key]
ResumeFile(self, key) ==
    IF "resume_files" \notin DOMAIN self.config THEN Raise(KeyError("resume_files"))
    ELSE IF key \notin DOMAIN self.config["resume_files"] THEN Raise(KeyError(key))
    ELSE Return(self.config["resume_files"][key])

ResumeOfText(self, text) ==
    ResumeFile(self, ResumeKey(Score(automation_keywords, text),
                               Score(entry_keywords, text),
                               Score(advanced_project_keywords, text)))

select_resume(self, job_title, job_description) ==
    ResumeOfText(self, JobText(job_title, job_description))

(***************************************************************************)
(* JobFilter.filter_job.  The outcome is the FilterResult together with    *)
(* the trace of the call: the stage operations it invoked, in order, each  *)
(* with what it returned or raised.  Each stage is an operator that        *)
(* receives what the stages before it produced: the details gathered so    *)
(* far and the trace so far.                                               *)
(***************************************************************************)
Dict(f) == [t |-> "dict", v |-> f]
\* {}
EmptyDict == <<>>
\* None passed where a job record is expected
NoneJob == [t |-> "NoneType", v |-> EmptyDict]

\* job_data.get(key, '')
Get(job_data, key) == IF key \in DOMAIN job_data.v THEN job_data.v[key] ELSE Str("")

PyFloat(f) == [t |-> "float", v |-> FloatRepr(f)]

\* the result filter_job starts from, with a reason and the details so far
Rejected(reason, details) ==
    [is_relevant |-> FALSE, reason |-> reason, details |-> details,
     resume_to_use |-> "", relevance_score |-> 0]

\* the result built by the except branch
ErrorResult(e) ==
    [is_relevant |-> FALSE, reason |-> "Error filtering job: " \o e,
     details |-> EmptyDict, resume_to_use |-> "", relevance_score |-> 0]

\* one entry of the trace: a stage operation and what it returned or raised
Call(op, ret) == [op |-> op, ret |-> ret]

\* what the try block ends with (a result or a fault), and the trace
Outcome(out, calls) == [out |-> out, calls |-> calls]

\* filter_result.update({...}) once every check has passed
Accepted(role_check, salary_info, details, resume_file) ==
    [is_relevant |-> TRUE,
     reason |-> "Job matches all criteria",
     details |-> details,
     resume_to_use |-> resume_file,
     relevance_score |-> role_check.score,
     salary_lpa |-> IF salary_info.found THEN PyFloat(salary_info.average_salary)
                    ELSE Str("Not specified"),
     is_fresher_friendly |-> role_check.fresher_friendly,
     matched_keywords |-> role_check.matched_keywords]

\* ResumeSelected leaving resume_to_use as the result started with it
ResumeSelectedForgotten(role_check, salary_info, details, calls, resume_file) ==
    IF Raised(resume_file) THEN Outcome(resume_file, calls)
    ELSE Outcome(Accepted(role_check, salary_info, details, ""), calls)

\* Step 5, after select_resume has returned or raised
ResumeSelected(role_check, salary_info, details, calls, resume_file) ==
    IF Raised(resume_file) THEN Outcome(resume_file, calls)
    ELSE Outcome(Accepted(role_check, salary_info, details, resume_file.value), calls)

\* Step 5: select appropriate resume
ResumeStep(role_check, salary_info, details, calls, resume_file) ==
    ResumeSelected(role_check, salary_info, details,
                   Append(calls, Call("select_resume", resume_file)), resume_file)

\* SalaryChecked rejecting a salary that ends at the configured minimum
SalaryCheckedInclusive(self, title, description, role_check, details, calls, salary_info) ==
    IF salary_info.found /\ salary_info.max_salary <= FromInt(self.min_salary)
    THEN Outcome(Rejected("Salary " \o FloatRepr(salary_info.max_salary)
                          \o " LPA below minimum " \o ToString(self.min_salary)
                          \o " LPA", details), calls)
    ELSE IF salary_info.found /\ salary_info.min_salary > FromInt(self.max_salary)
    THEN Outcome(Rejected("Salary " \o FloatRepr(salary_info.min_salary)
                          \o " LPA above realistic range", details), calls)
    ELSE ResumeStep(role_check, salary_info, details, calls,
                    select_resume(self, title, description))

\* Step 4, the two comparisons with the configured range
SalaryChecked(self, title, description, role_check, details, calls, salary_info) ==
    IF salary_info.found /\ salary_info.max_salary < FromInt(self.min_salary)
    THEN Outcome(Rejected("Salary " \o FloatRepr(salary_info.max_salary)
                          \o " LPA below minimum " \o ToString(self.min_salary)
                          \o " LPA", details), calls)
    ELSE IF salary_info.found /\ salary_info.min_salary > FromInt(self.max_salary)
    THEN Outcome(Rejected("Salary " \o FloatRepr(salary_info.min_salary)
                          \o " LPA above realistic range", details), calls)
    ELSE ResumeStep(role_check, salary_info, details, calls,
                    select_resume(self, title, description))

\* Step 4: check salary (if available);
\* filter_result['details']['salary_info'] = salary_info comes before the check
SalaryStep(self, title, description, role_check, details, calls, salary_info) ==
    SalaryChecked(self, title, description, role_check,
                  details @@ ("salary_info" :> salary_info),
                  Append(calls, Call("extract_salary", salary_info)), salary_info)

\* Step 3, after calculate_experience_match has returned or raised
ExperienceChecked(self, title, description, role_check, details, calls, exp_check) ==
    IF Raised(exp_check) THEN Outcome(exp_check, calls)
    ELSE IF ~exp_check.is_match
    THEN Outcome(Rejected(exp_check.reason,
                          details @@ ("experience_check" :> exp_check)), calls)
    ELSE SalaryStep(self, title, description, role_check,
                    details @@ ("experience_check" :> exp_check), calls,
                    extract_salary(Format(title) \o " " \o Format(description)))

\* Step 3: check experience requirements
ExperienceStep(self, title, description, role_check, details, calls, exp_check) ==
    ExperienceChecked(self, title, description, role_check, details,
                      Append(calls, Call("calculate_experience_match", exp_check)),
                      exp_check)

\* LocationChecked rejecting before the location check is put in the details
LocationCheckedUnrecorded(self, title, description, role_check, details, calls, location_check) ==
    IF Raised(location_check) THEN Outcome(location_check, calls)
    ELSE IF ~location_check.is_match
    THEN Outcome(Rejected(location_check.reason, details), calls)
    ELSE ExperienceStep(self, title, description, role_check,
                        details @@ ("location_check" :> location_check), calls,
                        calculate_experience_match(description))

\* Step 2, after is_location_match has returned or raised
LocationChecked(self, title, description, role_check, details, calls, location_check) ==
    IF Raised(location_check) THEN Outcome(location_check, calls)
    ELSE IF ~location_check.is_match
    THEN Outcome(Rejected(location_check.reason,
                          details @@ ("location_check" :> location_check)), calls)
    ELSE ExperienceStep(self, title, description, role_check,
                        details @@ ("location_check" :> location_check), calls,
                        calculate_experience_match(description))

\* Step 2: check location
LocationStep(self, title, description, role_check, details, calls, location_check) ==
    LocationChecked(self, title, description, role_check, details,
                    Append(calls, Call("is_location_match", location_check)),
                    location_check)

\* Step 1, after is_relevant_role has returned or raised
RoleChecked(self, title, description, location, calls, role_check) ==
    IF Raised(role_check) THEN Outcome(role_check, calls)
    ELSE IF ~role_check.is_relevant
    THEN Outcome(Rejected(role_check.reason, "role_check" :> role_check), calls)
    ELSE LocationStep(self, title, description, role_check,
                      "role_check" :> role_check, calls,
                      is_location_match(self, location))

\* Step 1: check role relevance
RoleStep(self, title, description, location, role_check) ==
    RoleChecked(self, title, description, location,
                <<Call("is_relevant_role", role_check)>>, role_check)

\* the body of the try block, once the fields are read from the record
FilterFields(self, title, description, location) ==
    RoleStep(self, title, description, location,
             is_relevant_role(self, title, description))

\* the body of the try block
FilterStages(self, job_data) ==
    IF job_data.t # "dict" THEN Outcome(Raise(AttributeError(job_data, "get")), <<>>)
    ELSE FilterFields(self, Get(job_data, "title"), Get(job_data, "description"),
                      Get(job_data, "location"))

\* Caught without the except branch: the exception leaves filter_job
CaughtReraised(run) ==
    IF Raised(run.out)
    THEN [result |-> run.out, calls |-> run.calls, fault |-> <<run.out.exc>>]
    ELSE [result |-> run.out, calls |-> run.calls, fault |-> <<>>]

\* try: ... except Exception as e: ...; fault holds the text of the exception
\* the except branch caught, if it caught one
Caught(run) ==
    IF Raised(run.out)
    THEN [result |-> ErrorResult(run.out.exc), calls |-> run.calls,
          fault |-> <<run.out.exc>>]
    ELSE [result |-> run.out, calls |-> run.calls, fault |-> <<>>]

filter_job(self, job_data) == Caught(FilterStages(self, job_data))

(***************************************************************************)
(* Inputs: configuration files and job records                             *)
(***************************************************************************)
\* a dict without one of its keys
Without(d, k) == [x \in DOMAIN d \ {k} |-> d[x]]
\* a dict with one entry replaced
With(d, k, val) == [x \in DOMAIN d |-> IF x = k THEN val ELSE d[x]]

Keywords ==
    [positive |-> <<"qa", "test", "testing", "automation", "selenium", "quality",
                    "sdet", "pytest", "api testing", "tester", "quality assurance">>,
     negative |-> <<"senior", "lead", "5+ years", "manager">>,
     fresher_friendly |-> <<"fresher", "entry level", "graduate", "0-1 years",
                            "trainee">>]

ResumeFiles ==
    [qa_automation |-> "Mani_QA1.pdf", qa_entry |-> "Mani_QA3.pdf",
     qa_general |-> "Mani_QA2.pdf"]

JobPreferences ==
    [roles |-> <<"QA Engineer", "SDET">>, min_salary_lpa |-> 4, max_salary_lpa |-> 10,
     locations |-> <<"Hyderabad", "Navi Mumbai">>]

FullConfig ==
    [job_preferences |-> JobPreferences,
     skills |-> [languages |-> <<"Python">>, testing_tools |-> <<"Selenium">>],
     keywords |-> Keywords,
     resume_files |-> ResumeFiles]

\* the configuration files the program may be started with: complete, or
\* lacking one entry
ConfigFiles ==
    {FullConfig,
     With(FullConfig, "job_preferences", Without(JobPreferences, "max_salary_lpa")),
     With(FullConfig, "keywords", Without(Keywords, "positive")),
     With(FullConfig, "keywords", Without(Keywords, "negative")),
     With(FullConfig, "keywords", Without(Keywords, "fresher_friendly")),
     Without(FullConfig, "resume_files"),
     With(FullConfig, "resume_files", Without(ResumeFiles, "qa_entry")),
     Without(FullConfig, "keywords")}

Titles == {"QA Automation Engineer - Fresher", "Senior Test Lead", "QA Tester"}

Locations == {"Hyderabad", "Pune", "Remote"}

\* the sentences a description is put together from, in the order they appear
Phrases ==
    <<"Selenium, pytest and API testing",
      "SDET tester for quality assurance",
      "Entry level trainee, graduate or junior associate",
      "5+ years experience",
      "0-1 years experience",
      "2-5 years",
      "minimum 3 years",
      "Salary: 5-8 LPA",
      "upto 3.5 lpa",
      "2-4 LPA",
      "10-16 LPA",
      "10 to 16 LPA",
      "Python framework for load testing">>

\* the most sentences a description has
MaxPhrases == 2

\* the sentences numbered in S, in order, joined by blanks
RECURSIVE JoinFrom(_, _)
JoinFrom(S, i) ==
    IF i > Len(Phrases) THEN ""
    ELSE IF i \in S
         THEN Phrases[i] \o (IF \E j \in S : j > i THEN " " ELSE "") \o JoinFrom(S, i + 1)
         ELSE JoinFrom(S, i + 1)

Descriptions ==
    {JoinFrom(S, 1) : S \in {S \in SUBSET (1..Len(Phrases)) : Cardinality(S) <= MaxPhrases}}

Job(title, description, location) ==
    Dict([title |-> title, description |-> description, location |-> location,
          company |-> Str("Tech Startup"), source |-> Str("LinkedIn")])

WellFormedJobs ==
    {Job(Str(t), Str(d), Str(l)) : t \in Titles, d \in Descriptions, l \in Locations}

\* records a scraper can hand over with a field that is absent or not a text
MalformedJobs ==
    {NoneJob,
     Dict([title |-> Str("QA Tester")]),
     Job(Str("QA Tester"), PyNone, Str("Hyderabad")),
     Job(PyNone, Str("QA tester, 0-1 years experience"), Str("Remote")),
     Job(Str("QA Tester"), Str("Salary: 5-8 LPA"), PyNone),
     Job(Str("QA Tester"), Str("Salary: 5-8 LPA"), PyInt(0)),
     Job(Str("QA Tester"), Str("Salary: 5-8 LPA"), PyInt(5)),
     Job(Str("QA Tester"), Str("Salary: 5-8 LPA"), Str("Mumbai")),
     Job(Str("QA Tester"), Str("Salary: 5-8 LPA"), Str(""))}

Jobs == WellFormedJobs \cup MalformedJobs

(***************************************************************************)
(* The program: one JobFilter, built from a configuration file, filtering  *)
(* job records                                                             *)
(***************************************************************************)
VARIABLES filter, job, last, first, out, jobs, applicator, emailer, bot, scraper

vars == <<filter, job, last, first, out, jobs, applicator, emailer, bot, scraper>>

\* the batch of records and the objects that take no part in a specification
others == <<jobs, applicator, emailer, bot, scraper>>

NoOthers == jobs = <<>> /\ applicator = <<>> /\ emailer = <<>> /\ bot = <<>> /\ scraper = <<>>

\* filter : the JobFilter object, or the fault that ended its construction
\* job    : the job record under study
\* last   : the latest filter_job call: its argument, its result, its trace
\*          and the fault it caught (empty before the first call)
\* first  : the result of the first filter_job call on job, and the kinds of
\*          outcome the calls on other records have had since (empty before it)
\* out    : the latest call of another operation: its name, its argument and
\*          what it returned or raised (empty before the first such call)

Init ==
    /\ \E config \in ConfigFiles : filter = JobFilterNew(config)
    /\ job \in Jobs
    /\ last = <<>>
    /\ first = <<>>
    /\ out = <<>>
    /\ NoOthers

\* FilterAfter of a filter_job that raised self.min_salary on each call
FilterAfterRaised(self, job_data) ==
    [self EXCEPT !.min_salary = Min2(self.min_salary + 1, self.max_salary)]

\* the JobFilter object after a filter_job call: the call assigns no attribute
FilterAfter(self, job_data) == self

\* the kind of outcome a call had
Kind(call) ==
    IF call.fault # <<>> THEN "fault"
    ELSE IF call.result.is_relevant THEN "accepted" ELSE "rejected"

\* what a finished call leaves behind
Returned(job_data, call) ==
    /\ last' = <<[job |-> job_data, result |-> call.result, calls |-> call.calls,
                   fault |-> call.fault]>>
    /\ first' = IF job_data = job
                THEN (IF first = <<>> THEN <<[result |-> call.result, since |-> {}]>>
                      ELSE first)
                ELSE (IF first = <<>> THEN first
                      ELSE <<[result |-> first[1].result,
                              since |-> first[1].since \cup {Kind(call)}]>>)

\* one call filter.filter_job(job_data)
FilterJob(job_data) ==
    /\ ~Raised(filter)
    /\ Returned(job_data, filter_job(filter, job_data))
    /\ filter' = FilterAfter(filter, job_data)
    /\ UNCHANGED <<job, out, others>>

Next == FilterJob(job)

Spec == Init /\ [][Next]_vars

(***************************************************************************)
(* The same program filtering the record under study in between calls on   *)
(* other records                                                           *)
(***************************************************************************)
\* records filtered in between: one that is accepted, one that is rejected
\* and one whose filtering faults, under the complete configuration
OtherJobs ==
    {Job(Str("QA Automation Engineer - Fresher"), Str("Salary: 5-8 LPA"), Str("Remote")),
     Job(Str("Senior Test Lead"), Str("5+ years experience"), Str("Pune")),
     Job(Str("QA Tester"), PyNone, Str("Hyderabad"))}

ReplayJobs ==
    MalformedJobs \cup
    {Job(Str("QA Tester"), Str(Phrases[i]), Str("Hyderabad")) : i \in DOMAIN Phrases}

InitReplay ==
    /\ \E config \in ConfigFiles : filter = JobFilterNew(config)
    /\ job \in ReplayJobs
    /\ last = <<>>
    /\ first = <<>>
    /\ out = <<>>
    /\ NoOthers

NextReplay == \E job_data \in {job} \cup OtherJobs : FilterJob(job_data)

SpecReplay == InitReplay /\ [][NextReplay]_vars

(***************************************************************************)
(* The checkers of a JobFilter called one at a time                        *)
(***************************************************************************)
\* configurations that differ in the target locations
LocationConfigs ==
    {FullConfig,
     With(FullConfig, "job_preferences", With(JobPreferences, "locations", <<>>)),
     With(FullConfig, "job_preferences",
          With(JobPreferences, "locations", <<"Bangalore", "New Delhi">>))}

\* the location fields of job records
LocationValues ==
    {Str(l) : l \in {"", "Hyderabad", "hyderabad, India", "Pune", "Remote",
                     "Work From Home", "WFH Bangalore", "Mumbai", "Navi",
                     "Delhi NCR", "Anywhere in India", "Chennai"}}
    \cup {PyNone, PyInt(0), PyInt(5)}

\* one call filter.is_location_match(location) on the location of job
IsLocationMatch ==
    /\ ~Raised(filter)
    /\ out' = <<[op |-> "is_location_match", arg |-> Get(job, "location"),
                 ret |-> is_location_match(filter, Get(job, "location"))]>>
    /\ UNCHANGED <<filter, job, last, first, others>>

\* the most years a stated experience requirement asks for
MaxYears == 6

\* a stated requirement of one number, in the wordings of the patterns
SingleTexts ==
    {[text |-> w[1] \o ToString(n) \o w[2], n |-> n] :
        n \in 0..MaxYears,
        w \in {<<"", " years experience">>, <<"", "+ years of experience">>,
               <<"Minimum ", " years">>, <<"at least ", " year in testing">>}}

\* a stated requirement that is a range x-y or x to y
RangeTexts ==
    {[text |-> ToString(x) \o w[1] \o ToString(y) \o " years" \o w[2],
      x |-> x, y |-> y, experience |-> w[2] # ""] :
        x \in 0..MaxYears, y \in 0..MaxYears,
        w \in {"-", " - ", " to "} \X {"", " experience", " of experience"}}

\* descriptions that state no requirement
PlainTexts == {"", "Experienced tester wanted", "years of experience required"}

\* the description fields of job records
DescriptionValues ==
    {Str(r.text) : r \in SingleTexts \cup RangeTexts} \cup {Str(t) : t \in PlainTexts}
    \cup {PyNone}

\* one call filter.calculate_experience_match(description) on the description
\* of job
CalculateExperienceMatch ==
    /\ ~Raised(filter)
    /\ out' = <<[op |-> "calculate_experience_match", arg |-> Get(job, "description"),
                 ret |-> calculate_experience_match(Get(job, "description"))]>>
    /\ UNCHANGED <<filter, job, last, first, others>>

\* amounts as they are written, with their value in thousandths
Amounts ==
    {[s |-> "3", f |-> 3000], [s |-> "5", f |-> 5000], [s |-> "8", f |-> 8000],
     [s |-> "6.5", f |-> 6500], [s |-> "12.25", f |-> 12250], [s |-> "0.5", f |-> 500]}

\* a salary written as a range x-y lpa
SalaryRangeTexts ==
    {[text |-> w[1] \o x.s \o w[2] \o y.s \o w[3], x |-> x.f, y |-> y.f] :
        x \in Amounts, y \in Amounts,
        w \in {<<"", "-", " LPA">>, <<"Salary: ", " - ", "lpa">>,
               <<"CTC ", "-", " LPA per year">>, <<"package:", " -", " lpa">>}}

\* a salary written as a single value
SalaryValueTexts ==
    {[text |-> w[1] \o x.s \o w[2], x |-> x.f] :
        x \in Amounts,
        w \in {<<"", " LPA">>, <<"Salary ", "lpa">>, <<"upto ", " lpa">>,
               <<"up to ", " LPA fixed">>, <<"", " lakhs per annum">>}}

\* texts in which more than one of the patterns has a match
SalaryMixedTexts ==
    {"5 to 8 LPA", "CTC: 7-9 lakhs per annum, bonus 5 LPA", "<rupee> 3-5 lakh or 8 lpa",
     "3 lakh per annum", "<rupee>6.5 lakh"}

\* texts that name no salary
SalaryPlainTexts == {"", "Competitive salary", "5 years", "lpa", "5 lakh", "5-8"}

SalaryTextValues ==
    {r.text : r \in SalaryRangeTexts \cup SalaryValueTexts}
    \cup SalaryMixedTexts \cup SalaryPlainTexts

\* f"{title} {description}" of a record
TitleAndDescription(job_data) ==
    Format(Get(job_data, "title")) \o " " \o Format(Get(job_data, "description"))

\* one call filter.extract_salary(f"{title} {description}") on job
ExtractSalary ==
    /\ ~Raised(filter)
    /\ out' = <<[op |-> "extract_salary", arg |-> Str(TitleAndDescription(job)),
                 ret |-> extract_salary(TitleAndDescription(job))]>>
    /\ UNCHANGED <<filter, job, last, first, others>>

\* the records the checkers are called on
CheckerJobs ==
    {Job(Str("QA Tester"), Str("Selenium and pytest"), l) : l \in LocationValues}
    \cup {Job(Str("QA Tester"), d, Str("Remote")) : d \in DescriptionValues}
    \cup {Job(Str("QA Tester"), Str(t), Str("Remote")) : t \in SalaryTextValues}

InitCheckers ==
    /\ \E config \in LocationConfigs : filter = JobFilterNew(config)
    /\ job \in CheckerJobs
    /\ last = <<>>
    /\ first = <<>>
    /\ out = <<>>
    /\ NoOthers

NextCheckers == IsLocationMatch \/ CalculateExperienceMatch \/ ExtractSalary

SpecCheckers == InitCheckers /\ [][NextCheckers]_vars

(***************************************************************************)
(* src/emailer.py: the contact extractor of EmailManager.  The regular     *)
(* expressions of the source are raw strings with doubled backslashes, so  *)
(* what the source spells \\b, \\s and \\. is, to the re module, a         *)
(* backslash character followed by b, by s, or by any character.           *)
(***************************************************************************)
Backslash == "\\"

LowerLetters ==
    {"a", "b", "c", "d", "e", "f", "g", "h", "i", "j", "k", "l", "m",
     "n", "o", "p", "q", "r", "s", "t", "u", "v", "w", "x", "y", "z"}
IsLetter(c) == LowerChar(c) \in LowerLetters
IsAlnum(c) == IsLetter(c) \/ IsDigit(c)

\* str.replace(old, new), and re.sub of a pattern that is plain text
RECURSIVE ReplaceFrom(_, _, _, _)
ReplaceFrom(s, i, old, new) ==
    IF i > Len(s) THEN ""
    ELSE IF StartsAt(s, i, old) THEN new \o ReplaceFrom(s, i + Len(old), old, new)
    ELSE At(s, i) \o ReplaceFrom(s, i + 1, old, new)

Replace(s, old, new) == ReplaceFrom(s, 1, old, new)

\* str.strip()
RECURSIVE Strip(_)
Strip(s) ==
    IF s # "" /\ IsSpace(At(s, 1)) THEN Strip(SubSeq(s, 2, Len(s)))
    ELSE IF s # "" /\ IsSpace(At(s, Len(s))) THEN Strip(SubSeq(s, 1, Len(s) - 1))
    ELSE s

\* the suffixes of clean_company_name, in list order
Suffixes ==
    <<"pvt ltd", "private limited", "ltd", "limited", "inc", "corporation",
      "corp", "company", "technologies", "technology", "tech", "solutions",
      "solution", "systems", "system", "services", "service", "enterprises",
      "enterprise", "group", "pvt", "llp", "llc">>

\* re.sub(rf'\\b{suffix}\\b', '', clean_name): the text removed is the
\* suffix between a backslash-b before it and a backslash-b after it
SuffixPattern(suffix) == Backslash \o "b" \o suffix \o Backslash \o "b"

\* the loop over the suffixes, from the k-th on
RECURSIVE RemoveSuffixes(_, _)
RemoveSuffixes(clean_name, k) ==
    IF k > Len(Suffixes) THEN clean_name
    ELSE RemoveSuffixes(Replace(clean_name, SuffixPattern(Suffixes[k]), ""), k + 1)

\* re.sub(r'[^a-zA-Z0-9\\s]', '', clean_name): the class keeps letters,
\* digits and the backslash; blanks are removed with everything else
RECURSIVE RemoveSpecial(_, _)
RemoveSpecial(s, i) ==
    IF i > Len(s) THEN ""
    ELSE (IF IsAlnum(At(s, i)) \/ At(s, i) = Backslash THEN At(s, i) ELSE "")
         \o RemoveSpecial(s, i + 1)

RECURSIVE SkipChar(_, _, _)
SkipChar(s, i, c) == IF At(s, i) = c THEN SkipChar(s, i + 1, c) ELSE i

\* re.sub(r'\\s+', '', clean_name): removes a backslash with the run of
\* letters s after it
RECURSIVE RemoveBackslashS(_, _)
RemoveBackslashS(s, i) ==
    IF i > Len(s) THEN ""
    ELSE IF At(s, i) = Backslash /\ At(s, i + 1) = "s"
         THEN RemoveBackslashS(s, SkipChar(s, i + 1, "s"))
    ELSE At(s, i) \o RemoveBackslashS(s, i + 1)

\* EmailManager.clean_company_name
clean_company_name(company_name) ==
    IF company_name.t # "str" THEN Raise(AttributeError(company_name, "lower"))
    ELSE Return(Strip(RemoveBackslashS(
             RemoveSpecial(RemoveSuffixes(Lower(company_name.v), 1), 1), 1)))

MaxDomains == 5
ShortNameLen == 8

\* l[:n]
Take(l, n) == SubSeq(l, 1, Min2(n, Len(l)))

\* the two domains of a variation that differs from the clean name
VariationDomains(clean_company, variation) ==
    IF variation # clean_company
    THEN <<variation \o ".com", variation \o ".in">>
    ELSE <<>>

\* EmailManager.generate_company_domains
generate_company_domains(clean_company) ==
    IF clean_company = "" THEN <<>>
    ELSE Take(<<clean_company \o ".com", clean_company \o ".in",
                clean_company \o ".co.in", clean_company \o ".org">>
              \o (IF Len(clean_company) > ShortNameLen
                  THEN <<SubSeq(clean_company, 1, ShortNameLen) \o ".com",
                         SubSeq(clean_company, 1, ShortNameLen) \o ".in">>
                  ELSE <<>>)
              \o VariationDomains(clean_company,
                                  Replace(clean_company, "technologies", "tech"))
              \o VariationDomains(clean_company,
                                  Replace(clean_company, "solutions", "sol"))
              \o VariationDomains(clean_company,
                                  Replace(clean_company, "systems", "sys")),
              MaxDomains)

\* the character classes of the e-mail patterns: [A-Za-z0-9._%+-],
\* [A-Za-z0-9.-] and [A-Z|a-z]
InClass(class, c) ==
    CASE class = "local" -> IsAlnum(c) \/ c \in {".", "_", "%", "+", "-"}
      [] class = "domain" -> IsAlnum(c) \/ c \in {".", "-"}
      [] class = "tld" -> IsLetter(c) \/ c = "|"

RECURSIVE SkipClass(_, _, _)
SkipClass(class, s, i) ==
    IF i <= Len(s) /\ InClass(class, At(s, i)) THEN SkipClass(class, s, i + 1) ELSE i

\* [A-Za-z0-9._%+-]+@[A-Za-z0-9.-]+\\.[A-Z|a-z]{2,} matched at i, given
\* where its local part (a) and its domain part (d) end: the position after
\* the match, or 0.  No class holds the character that must follow it, so
\* each run is the longest one.
EmailShapeEnd(s, i, a, d) ==
    IF /\ a > i /\ At(s, a) = "@"
       /\ d > a + 1 /\ At(s, d) = Backslash
       /\ At(s, d + 1) \notin {"", "\n"}
       /\ SkipClass("tld", s, d + 2) >= d + 4
    THEN SkipClass("tld", s, d + 2)
    ELSE 0

EmailShapeAt(s, i) ==
    EmailShapeEnd(s, i, SkipClass("local", s, i),
                  SkipClass("domain", s, SkipClass("local", s, i) + 1))

\* re.findall(email_pattern, text): the pattern is the shape between a
\* backslash-b before it and a backslash-b after it
RECURSIVE FoundEmails(_, _)
FoundEmails(text, i) ==
    IF i > Len(text) THEN <<>>
    ELSE IF /\ StartsAt(text, i, Backslash \o "b")
            /\ EmailShapeAt(text, i + 2) # 0
            /\ StartsAt(text, EmailShapeAt(text, i + 2), Backslash \o "b")
         THEN <<SubSeq(text, i, EmailShapeAt(text, i + 2) + 1)>>
              \o FoundEmails(text, EmailShapeAt(text, i + 2) + 2)
    ELSE FoundEmails(text, i + 1)

avoid_patterns == <<"noreply", "no-reply", "donotreply", "admin", "support">>

Avoided(email) ==
    \E k \in DOMAIN avoid_patterns : Contains(avoid_patterns[k], Lower(email))

\* EmailManager.extract_emails_from_text
extract_emails_from_text(text) ==
    IF text.t # "str"
    THEN Raise("expected string or bytes-like object, got '" \o text.t \o "'")
    ELSE Return(SelectSeq(FoundEmails(text.v, 1), LAMBDA email : ~Avoided(email)))

\* is_valid_email accepting every address that holds an at sign
is_valid_email_loose(email) == Contains("@", email)

\* EmailManager.is_valid_email: the shape, from the start of the text to its
\* end or to the line feed that ends it
is_valid_email(email) ==
    \/ EmailShapeAt(email, 1) = Len(email) + 1
    \/ EmailShapeAt(email, 1) = Len(email) /\ At(email, Len(email)) = "\n"

UpperChar(c) ==
    IF c \in LowerLetters
    THEN CHOOSE u \in {"A", "B", "C", "D", "E", "F", "G", "H", "I", "J", "K", "L", "M",
                       "N", "O", "P", "Q", "R", "S", "T", "U", "V", "W", "X", "Y", "Z"} :
             LowerChar(u) = c
    ELSE c

\* str.title(): a letter after a character that is no letter is upper case,
\* every other letter is lower case
RECURSIVE TitleFrom(_, _)
TitleFrom(s, i) ==
    IF i > Len(s) THEN ""
    ELSE (IF IsLetter(At(s, i - 1)) THEN LowerChar(At(s, i))
          ELSE UpperChar(LowerChar(At(s, i))))
         \o TitleFrom(s, i + 1)

Title(s) == TitleFrom(s, 1)

\* s.split()[0] of a text that is not blank
FirstWord(s) ==
    LET b == SkipSpace(s, 1)
        e == CHOOSE j \in b..(Len(s) + 1) :
                 /\ j > Len(s) \/ IsSpace(At(s, j))
                 /\ \A k \in b..(j - 1) : ~IsSpace(At(s, k))
    IN SubSeq(s, b, e - 1)

Contact(email, name, company, source, job_title, confidence) ==
    [email |-> email, name |-> name, company |-> company, source |-> source,
     job_title |-> job_title, confidence |-> confidence]

hr_patterns == <<"hr", "careers", "jobs", "recruitment", "hiring", "talent">>

\* the domain contacts with the local part as the outer loop
DomainContactsByPattern(possible_domains, company, job_title) ==
    [n \in 1..(Len(possible_domains) * Len(hr_patterns)) |->
        Contact(hr_patterns[((n - 1) \div Len(possible_domains)) + 1] \o "@"
                    \o possible_domains[((n - 1) % Len(possible_domains)) + 1],
                "HR Team", company, "domain_pattern", job_title, "medium")]

\* lines 334-352: for each domain in order, the six local parts in order
DomainContacts(possible_domains, company, job_title) ==
    [n \in 1..(Len(possible_domains) * Len(hr_patterns)) |->
        Contact(hr_patterns[((n - 1) % Len(hr_patterns)) + 1] \o "@"
                    \o possible_domains[((n - 1) \div Len(hr_patterns)) + 1],
                "HR Team", company, "domain_pattern", job_title, "medium")]

\* lines 358-366: the contacts of the addresses found in the description
DescriptionContacts(extracted_emails, company, job_title) ==
    [n \in 1..Len(extracted_emails) |->
        Contact(extracted_emails[n], "Contact Person", company,
                "job_description", job_title, "high")]

company_keywords == <<"tech", "solutions", "systems", "software">>

\* what the try block of extract_hr_contacts leaves: the contacts appended
\* so far, the fault that ended the block, and whether it ended in the
\* return of line 325
Derived(contacts, fault, returned) ==
    [contacts |-> contacts, fault |-> fault, returned |-> returned]

\* lines 368-379: the location contact of a company named after technology
WithLocation(job_data, company, possible_domains, contacts, location) ==
    IF ~\E k \in DOMAIN company_keywords : Contains(company_keywords[k], Lower(company.v))
    THEN Derived(contacts, <<>>, FALSE)
    ELSE IF location.t # "str"
         THEN Derived(contacts, <<AttributeError(location, "lower")>>, FALSE)
    ELSE IF Contains("hyderabad", Lower(location.v)) \/ Contains("bangalore", Lower(location.v))
         THEN Derived(Append(contacts,
                  Contact("hr." \o FirstWord(Lower(location.v)) \o "@"
                              \o (IF possible_domains # <<>> THEN possible_domains[1]
                                  ELSE "company.com"),
                          "HR Team - " \o Title(Lower(location.v)), company,
                          "location_pattern", Get(job_data, "title"), "low")),
                      <<>>, FALSE)
    ELSE Derived(contacts, <<>>, FALSE)

\* lines 354-366: the addresses of the description
WithDescription(job_data, company, possible_domains, contacts, extracted_emails) ==
    IF Raised(extracted_emails) THEN Derived(contacts, <<extracted_emails.exc>>, FALSE)
    ELSE WithLocation(job_data, company, possible_domains,
                      contacts \o DescriptionContacts(extracted_emails.value, company,
                                                      Get(job_data, "title")),
                      Get(job_data, "location"))

\* lines 331-352: the domains and their contacts
WithDomains(job_data, company, possible_domains) ==
    WithDescription(job_data, company, possible_domains,
                    DomainContacts(possible_domains, company, Get(job_data, "title")),
                    extract_emails_from_text(Get(job_data, "description")))

\* lines 327-328
WithCompany(job_data, company, clean_company) ==
    IF Raised(clean_company) THEN Derived(<<>>, <<clean_company.exc>>, FALSE)
    ELSE WithDomains(job_data, company, generate_company_domains(clean_company.value))

\* lines 322-382: the try block
Derive(job_data) ==
    IF job_data.t # "dict" THEN Derived(<<>>, <<AttributeError(job_data, "get")>>, FALSE)
    ELSE IF ~Truthy(Get(job_data, "company")) THEN Derived(<<>>, <<>>, TRUE)
    ELSE WithCompany(job_data, Get(job_data, "company"),
                     clean_company_name(Get(job_data, "company")))

MaxContacts == 3

\* the test of line 393 with one contact more allowed
FullLater(unique_contacts) == Len(unique_contacts) > MaxContacts

\* line 393
Full(unique_contacts) == Len(unique_contacts) >= MaxContacts

\* lines 384-396: the loop over the contacts, from the i-th on
RECURSIVE Unique(_, _, _, _)
Unique(contacts, i, seen_emails, unique_contacts) ==
    IF i > Len(contacts) THEN unique_contacts
    ELSE IF contacts[i].email \notin seen_emails /\ is_valid_email(contacts[i].email)
         THEN IF Full(Append(unique_contacts, contacts[i]))
              THEN Append(unique_contacts, contacts[i])
              ELSE Unique(contacts, i + 1, seen_emails \cup {contacts[i].email},
                          Append(unique_contacts, contacts[i]))
    ELSE Unique(contacts, i + 1, seen_emails, unique_contacts)

\* what extract_hr_contacts returns after a try block that left `derived`
Extracted(derived) ==
    [result |-> IF derived.returned THEN derived.contacts
                ELSE Unique(derived.contacts, 1, {}, <<>>),
     contacts |-> derived.contacts,
     fault |-> derived.fault]

\* EmailManager.extract_hr_contacts: the list it returns, with the
\* candidates its try block appended and the fault the block logged
extract_hr_contacts(job_data) == Extracted(Derive(job_data))

(***************************************************************************)
(* An EmailManager deriving the contacts of one job record                 *)
(***************************************************************************)
\* company names as a posting carries them; a name that ends in a backslash
\* is the kind whose guessed addresses is_valid_email accepts
ContactCompanies ==
    {Str("Acme\\"), Str("Tech\\"), Str("Infosystems\\"), Str("abcdefg\\x"),
     Str("Acme\\bpvt ltd\\b\\"), Str("TechCorp Solutions Pvt Ltd"), Str("Acme"),
     Str(""), PyNone, PyInt(5)}

ScenarioE == "contact: careers@acme.com and noreply@acme.com"

ContactDescriptions ==
    {Str(ScenarioE),
     Str("contact: \\bcareers@acme\\.com\\b and \\bnoreply@acme\\.com\\b"),
     Str("mail \\bJobs@Acme\\.in\\b"),
     Str("Selenium and pytest"), PyNone}

ContactLocations == {Str("Hyderabad"), Str("Bangalore East"), Str("Pune"), PyNone}

ContactJob(company, description, location) ==
    Dict([title |-> Str("QA Tester"), company |-> company,
          description |-> description, location |-> location])

ContactJobs ==
    {ContactJob(c, d, l) :
        c \in ContactCompanies, d \in ContactDescriptions, l \in ContactLocations}
    \cup {NoneJob,
          Dict([title |-> Str("QA Tester")]),
          Dict([title |-> Str("QA Tester"), description |-> Str(ScenarioE)]),
          Dict([company |-> Str("Acme\\")]),
          Dict([company |-> Str("Tech\\"), location |-> Str("Hyderabad")])}

\* one call extract_hr_contacts(job)
ExtractHrContacts ==
    /\ out' = <<[op |-> "extract_hr_contacts", arg |-> job,
                 ret |-> extract_hr_contacts(job)]>>
    /\ UNCHANGED <<filter, job, last, first, others>>

\* one call clean_company_name(company) on the company of job
CleanCompanyName ==
    /\ job.t = "dict"
    /\ out' = <<[op |-> "clean_company_name", arg |-> Get(job, "company"),
                 ret |-> clean_company_name(Get(job, "company"))]>>
    /\ UNCHANGED <<filter, job, last, first, others>>

\* one call generate_company_domains(clean_company) on the clean name of the
\* company of job
GenerateCompanyDomains ==
    /\ job.t = "dict"
    /\ ~Raised(clean_company_name(Get(job, "company")))
    /\ out' = <<[op |-> "generate_company_domains", arg |-> Get(job, "company"),
                 ret |-> generate_company_domains(
                             clean_company_name(Get(job, "company")).value)]>>
    /\ UNCHANGED <<filter, job, last, first, others>>

InitContacts ==
    /\ filter = JobFilterNew(FullConfig)
    /\ job \in ContactJobs
    /\ last = <<>>
    /\ first = <<>>
    /\ out = <<>>
    /\ NoOthers

NextContacts == ExtractHrContacts \/ CleanCompanyName \/ GenerateCompanyDomains

SpecContacts == InitContacts /\ [][NextContacts]_vars

(***************************************************************************)
(* JobFilter.get_filter_summary over a batch of job records                *)
(***************************************************************************)
\* rejection_reasons[reason] = 1, whatever was counted before
CountedOnce(rejection_reasons, reason) ==
    [r \in DOMAIN rejection_reasons \cup {reason} |->
        IF r = reason THEN 1 ELSE rejection_reasons[r]]

\* rejection_reasons[reason] = rejection_reasons.get(reason, 0) + 1
Counted(rejection_reasons, reason) ==
    [r \in DOMAIN rejection_reasons \cup {reason} |->
        IF r = reason
        THEN (IF reason \in DOMAIN rejection_reasons THEN rejection_reasons[reason] ELSE 0) + 1
        ELSE rejection_reasons[r]]

\* round(x, 2) of x = 100 * n / d, in hundredths
Percent(n, d) == (2 * 10000 * n + d) \div (2 * d)

\* the dict get_filter_summary returns
Summary(total_jobs, relevant_jobs, rejection_reasons) ==
    [total_jobs |-> total_jobs,
     relevant_jobs |-> Len(relevant_jobs),
     relevance_rate |-> Percent(Len(relevant_jobs), Max2(total_jobs, 1)),
     rejection_reasons |-> rejection_reasons,
     relevant_job_list |-> relevant_jobs]

\* one pass of the loop, given the result of filter_job
Tallied(tally, job_data, result) ==
    IF result.is_relevant
    THEN [relevant_jobs |-> Append(tally.relevant_jobs, job_data),
          rejection_reasons |-> tally.rejection_reasons]
    ELSE [relevant_jobs |-> tally.relevant_jobs,
          rejection_reasons |-> Counted(tally.rejection_reasons, result.reason)]

\* the loop over the records, from the i-th on
RECURSIVE SummaryLoop(_, _, _, _)
SummaryLoop(self, job_list, i, tally) ==
    IF i > Len(job_list) THEN tally
    ELSE SummaryLoop(self, job_list, i + 1,
                     Tallied(tally, job_list[i], filter_job(self, job_list[i]).result))

SummaryOf(total_jobs, tally) ==
    Summary(total_jobs, tally.relevant_jobs, tally.rejection_reasons)

get_filter_summary(self, job_list) ==
    SummaryOf(Len(job_list),
              SummaryLoop(self, job_list, 1,
                          [relevant_jobs |-> <<>>, rejection_reasons |-> EmptyDict]))

\* the most records in a batch
MaxBatch == 3

\* records of a batch: one accepted, two rejected for different reasons, two
\* that fault inside filter_job
BatchJobs ==
    {Job(Str("QA Automation Engineer - Fresher"), Str("Salary: 5-8 LPA"), Str("Remote")),
     Job(Str("Senior Test Lead"), Str("5+ years experience"), Str("Pune")),
     Job(Str("QA Tester"), Str("minimum 3 years"), Str("Hyderabad")),
     Job(Str("QA Tester"), PyNone, Str("Hyderabad")),
     NoneJob}

\* the lists of at most n records
Batches(S, n) == UNION {[1..k -> S] : k \in 0..n}

SummaryConfigs == {FullConfig, Without(FullConfig, "resume_files")}

\* one call filter.get_filter_summary(jobs)
GetFilterSummary ==
    /\ ~Raised(filter)
    /\ out' = <<[op |-> "get_filter_summary", arg |-> jobs,
                 ret |-> get_filter_summary(filter, jobs)]>>
    /\ UNCHANGED <<filter, job, last, first, others>>

InitSummary ==
    /\ \E config \in SummaryConfigs : filter = JobFilterNew(config)
    /\ job = NoneJob
    /\ last = <<>>
    /\ first = <<>>
    /\ out = <<>>
    /\ jobs \in Batches(BatchJobs, MaxBatch)
    /\ applicator = <<>> /\ emailer = <<>> /\ bot = <<>> /\ scraper = <<>>

NextSummary == GetFilterSummary

SpecSummary == InitSummary /\ [][NextSummary]_vars

(***************************************************************************)
(* JobApplicator (auto_apply.py).  What the browser shows is the           *)
(* environment: a session names what the site answers after the job page   *)
(* is opened (entry), the page states the form then goes through (pages)   *)
(* and whether the form-filling helper reports success (filled).           *)
(* applied_at, a time stamp, is left out of the result records.            *)
(***************************************************************************)
\* d[k] = val on a dict
Put(d, k, val) == [x \in DOMAIN d \cup {k} |-> IF x = k THEN val ELSE d[x]]

\* JobApplicator.__init__: the filter, the counter and the daily limit
JobApplicatorNew(config, daily_limits) ==
    IF Raised(JobFilterNew(config)) THEN JobFilterNew(config)
    ELSE IF "max_applications" \notin DOMAIN daily_limits
    THEN Raise(KeyError("max_applications"))
    ELSE [config |-> [daily_limits |-> daily_limits],
          filter |-> JobFilterNew(config),
          application_count |-> 0,
          daily_limit |-> daily_limits["max_applications"]]

\* the result an apply operation starts from
ApplyResult(job_data) ==
    [job_id |-> Get(job_data, "url"),
     title |-> Get(job_data, "title"),
     company |-> Get(job_data, "company"),
     status |-> "failed",
     reason |-> ""]

\* what an apply operation hands back: its result and the counter after it
Applied(result, application_count) ==
    [result |-> result, application_count |-> application_count]

max_steps == 8

\* the page states of one pass of the Easy-Apply loop: which buttons are
\* found, or a fault raised while filling or clicking
PageStates == {"next", "submit", "both", "neither", "fault"}

SubmitDetected(page) == page \in {"submit", "both"}

\* the fault a page state raises
StepErrorText == "stale element reference"

\* except Exception as step_error, with the step left where it is
StepFaultStays(form, step_error) ==
    IF form.current_step >= max_steps
    THEN [form EXCEPT !.result.reason = "Max steps reached - " \o step_error,
                      !.running = FALSE]
    ELSE form

\* except Exception as step_error: the step is counted, and the loop is left
\* when it was the last one
StepFault(form, step_error) ==
    IF form.current_step + 1 >= max_steps
    THEN [form EXCEPT !.current_step = @ + 1,
                      !.result.reason = "Max steps reached - " \o step_error,
                      !.running = FALSE]
    ELSE [form EXCEPT !.current_step = @ + 1]

\* one pass of "while current_step < max_steps"; running is whether another
\* pass follows
Iteration(job_data, form, page) ==
    IF page = "fault" THEN StepFault(form, StepErrorText)
    ELSE IF SubmitDetected(page)
    THEN IF "title" \notin DOMAIN job_data.v THEN StepFault(form, KeyError("title"))
         ELSE IF "company" \notin DOMAIN job_data.v
         THEN StepFault(form, KeyError("company"))
         ELSE [form EXCEPT
                 !.result.status = "success",
                 !.result.reason = "Application submitted via LinkedIn Easy Apply (simulated)",
                 !.result.steps_completed = form.current_step + 1,
                 !.application_count = @ + 1,
                 !.running = FALSE]
    ELSE IF page = "next"
    THEN [form EXCEPT !.current_step = @ + 1,
                      !.result.steps_completed = form.current_step + 1,
                      !.running = form.current_step + 1 < max_steps]
    ELSE [form EXCEPT
            !.result.reason = "Application form incomplete - no next/submit button",
            !.running = FALSE]

\* the form as the loop finds it after the Easy Apply button was clicked
FormOpened(self, job_data) ==
    [current_step |-> 0,
     result |-> ApplyResult(job_data) @@ [steps_completed |-> 1],
     application_count |-> self.application_count,
     running |-> 0 < max_steps]

\* the page state of the i-th pass; once the scripted pages are used up the
\* form shows no button
PageAt(pages, i) == IF i <= Len(pages) THEN pages[i] ELSE "neither"

RECURSIVE EasyApplyLoop(_, _, _, _)
EasyApplyLoop(job_data, form, pages, i) ==
    IF ~form.running THEN form
    ELSE EasyApplyLoop(job_data, Iteration(job_data, form, PageAt(pages, i)), pages, i + 1)

\* the part of apply_to_linkedin_job before the loop: the result it ends with,
\* or the form it opens
LinkedInEntry(self, job_data, entry) ==
    LET result == ApplyResult(job_data) @@ [steps_completed |-> 0]
        failed(e) ==
            IF "title" \notin DOMAIN job_data.v THEN Raise(KeyError("title"))
            ELSE Applied([result EXCEPT !.reason = "LinkedIn application failed: " \o e],
                         self.application_count)
    IN  IF job_data.t # "dict" THEN Raise(AttributeError(job_data, "get"))
        ELSE IF "url" \notin DOMAIN job_data.v THEN failed(KeyError("url"))
        ELSE IF entry = "fault" THEN failed("Message: unknown error")
        ELSE IF entry = "login"
        THEN Applied([result EXCEPT !.reason = "LinkedIn login required",
                                    !.status = "login_required"],
                     self.application_count)
        ELSE IF entry = "no_button"
        THEN Applied([result EXCEPT !.reason = "Easy Apply button not found"],
                     self.application_count)
        ELSE [form |-> FormOpened(self, job_data)]

apply_to_linkedin_job(self, job_data, session) ==
    LET entered == LinkedInEntry(self, job_data, session.entry)
    IN  IF "form" \notin DOMAIN entered THEN entered
        ELSE LET form == EasyApplyLoop(job_data, entered.form, session.pages, 1)
             IN  Applied(form.result, form.application_count)

\* apply_to_naukri_job: entry is what the site shows after the page is opened
\* and Apply is clicked
apply_to_naukri_job(self, job_data, session) ==
    LET result == ApplyResult(job_data)
        same(status, reason) ==
            Applied([result EXCEPT !.status = status, !.reason = reason],
                    self.application_count)
        success(reason) ==
            Applied([result EXCEPT !.status = "success", !.reason = reason],
                    self.application_count + 1)
    IN  IF job_data.t # "dict" THEN Raise(AttributeError(job_data, "get"))
        ELSE IF "url" \notin DOMAIN job_data.v
        THEN same("failed", "Naukri application failed: " \o KeyError("url"))
        ELSE IF session.entry = "fault"
        THEN same("failed", "Naukri application failed: Message: unknown error")
        ELSE IF session.entry = "login"
        THEN same("login_required", "Naukri login required for application")
        ELSE IF session.entry = "no_button"
        THEN same("failed", "Apply button not found on Naukri")
        ELSE IF session.entry = "external"
        THEN same("external", "Redirected to external application site")
        ELSE IF session.entry = "applied"
        THEN success("Successfully applied via Naukri")
        ELSE IF session.entry = "form"
        THEN IF session.filled THEN success("Application form submitted on Naukri")
             ELSE same("failed", "Could not complete Naukri application form")
        ELSE same("failed", "Naukri application status unclear")

\* apply_to_indeed_job
apply_to_indeed_job(self, job_data, session) ==
    LET result == ApplyResult(job_data)
        same(status, reason) ==
            Applied([result EXCEPT !.status = status, !.reason = reason],
                    self.application_count)
    IN  IF job_data.t # "dict" THEN Raise(AttributeError(job_data, "get"))
        ELSE IF "url" \notin DOMAIN job_data.v
        THEN same("failed", "Indeed application failed: " \o KeyError("url"))
        ELSE IF session.entry = "fault"
        THEN same("failed", "Indeed application failed: Message: unknown error")
        ELSE IF session.entry = "no_button"
        THEN same("failed", "No apply button found on Indeed")
        ELSE IF session.entry = "external"
        THEN same("external", "Redirected to company website")
        ELSE IF session.filled
        THEN Applied([result EXCEPT !.status = "success", !.reason = "Applied via Indeed"],
                     self.application_count + 1)
        ELSE same("failed", "Could not complete Indeed form")

(***************************************************************************)
(* JobApplicator.apply_to_jobs                                             *)
(***************************************************************************)
\* if self.application_count > self.daily_limit
LimitPassed(self) == self.application_count > self.daily_limit

\* if self.application_count >= self.daily_limit
LimitReached(self) == self.application_count >= self.daily_limit

\* job[k] for each k of keys in turn: the fault of the first that fails
Subscripted(job_data, keys) ==
    IF job_data.t # "dict" THEN <<"'" \o job_data.t \o "' object is not subscriptable">>
    ELSE LET missing == {i \in DOMAIN keys : keys[i] \notin DOMAIN job_data.v}
         IN  IF missing = {} THEN <<>> ELSE <<KeyError(keys[Min(missing)])>>

\* the apply operation the source of a record selects, "" when there is none
Site(job_data) ==
    IF job_data.v["source"] = Str("LinkedIn") THEN "apply_to_linkedin_job"
    ELSE IF job_data.v["source"] = Str("Naukri") THEN "apply_to_naukri_job"
    ELSE IF job_data.v["source"] = Str("Indeed") THEN "apply_to_indeed_job"
    ELSE ""

\* no record is skipped
SkippedNever(filter_result) == FALSE

\* if not filter_result.get('is_relevant', False)
Skipped(filter_result) == ~filter_result.is_relevant

\* "Apply based on source"
Dispatch(self, job_data, session) ==
    IF Site(job_data) = "apply_to_linkedin_job"
    THEN apply_to_linkedin_job(self, job_data, session)
    ELSE IF Site(job_data) = "apply_to_naukri_job"
    THEN apply_to_naukri_job(self, job_data, session)
    ELSE IF Site(job_data) = "apply_to_indeed_job"
    THEN apply_to_indeed_job(self, job_data, session)
    ELSE Applied([ApplyResult(job_data) EXCEPT
                    !.status = "unsupported",
                    !.reason = "Source " \o Format(job_data.v["source"])
                                   \o " not supported yet"],
                 self.application_count)

\* random.uniform(application_delay_min, application_delay_max): the fault of
\* reading the two settings
DelayRead(self) ==
    IF "application_delay_min" \notin DOMAIN self.config["daily_limits"]
    THEN <<KeyError("application_delay_min")>>
    ELSE IF "application_delay_max" \notin DOMAIN self.config["daily_limits"]
    THEN <<KeyError("application_delay_max")>>
    ELSE <<>>

\* the pass of the loop for a record the filter accepted.  calls notes, for
\* the properties, which operation the record went to and the counter
\* before and after
Attempt(run, job_data, i, filter_result, session) ==
    LET applied == Dispatch(run.self, job_data, session)
        result == applied.result @@
                  [filter_result |-> filter_result,
                   search_keywords |-> Get(job_data, "search_keywords")]
    IN  [self |-> [run.self EXCEPT !.application_count = applied.application_count],
         application_results |-> Append(run.application_results, result),
         calls |-> Append(run.calls,
                          [job |-> i, op |-> Site(job_data),
                           before |-> run.self.application_count,
                           after |-> applied.application_count]),
         fault |-> DelayRead(run.self)]

\* for i, job in enumerate(jobs), from the i-th record on; a fault ends the
\* loop (except Exception at the end of apply_to_jobs)
RECURSIVE ApplyLoop(_, _, _, _, _)
ApplyLoop(run, job_list, filter_results, sessions, i) ==
    IF i > Len(job_list) \/ run.fault # <<>> THEN run
    ELSE IF LimitReached(run.self) THEN run
    ELSE IF Skipped(filter_results[i])
    THEN ApplyLoop([run EXCEPT !.fault = Subscripted(job_list[i], <<"title">>)],
                   job_list, filter_results, sessions, i + 1)
    ELSE IF Subscripted(job_list[i], <<"title", "company", "source">>) # <<>>
    THEN [run EXCEPT !.fault = Subscripted(job_list[i], <<"title", "company", "source">>)]
    ELSE ApplyLoop(Attempt(run, job_list[i], i, filter_results[i], sessions[i]),
                   job_list, filter_results, sessions, i + 1)

\* self.filter.filter_job(job) for each record of the list; the filter keeps
\* no state, so what it returns does not depend on when the loop asks
Filtered(self, job_list) ==
    [i \in DOMAIN job_list |-> filter_job(self.filter, job_list[i]).result]

\* apply_to_jobs(jobs), where filter_results[i] is what filter_job returns for
\* the i-th record and browser is whether setup_driver brings up a browser
apply_to_jobs(self, job_list, filter_results, browser, sessions) ==
    IF ~browser
    THEN [self |-> self, application_results |-> <<>>, calls |-> <<>>,
          fault |-> <<"Message: unable to obtain driver">>]
    ELSE ApplyLoop([self |-> self, application_results |-> <<>>, calls |-> <<>>,
                    fault |-> <<>>],
                   job_list, filter_results, sessions, 1)

(***************************************************************************)
(* The applicator at work.  SpecEasyApply follows one call of              *)
(* apply_to_linkedin_job pass by pass; SpecApply repeats apply_to_jobs on  *)
(* one applicator.                                                         *)
(***************************************************************************)
\* the largest max_applications tried
MaxLimit == 2

\* the daily_limits sections: with the two delay settings, and one without
ApplyLimits ==
    {[max_applications |-> n, application_delay_min |-> 10, application_delay_max |-> 30] :
        n \in 0..MaxLimit}
    \cup {[max_applications |-> MaxLimit]}

\* a record the filter accepts, one it rejects
GoodJob ==
    Job(Str("QA Automation Engineer"), Str(""), Str("Remote"))
BadJob == Job(Str("Senior Test Lead"), Str(""), Str("Pune"))

\* the record with a url and the given source
Posted(job_data, source) ==
    Dict(Put(Put(job_data.v, "url", Str("https://jobs.example.com/1")), "source", Str(source)))

Lacking(job_data, key) == Dict(Without(job_data.v, key))

EasyApplyJobs ==
    {Posted(GoodJob, "LinkedIn"),
     Lacking(Posted(GoodJob, "LinkedIn"), "title"),
     Lacking(Posted(GoodJob, "LinkedIn"), "company"),
     Lacking(Posted(GoodJob, "LinkedIn"), "url"),
     Lacking(Lacking(Posted(GoodJob, "LinkedIn"), "url"), "title")}

LinkedInEntries == {"fault", "login", "no_button", "form"}

\* apply_to_linkedin_job(job) up to the loop
EasyApplyOpen ==
    /\ out = <<>>
    /\ \E entry \in LinkedInEntries :
          LET entered == LinkedInEntry(applicator, job, entry)
          IN  out' = <<[op |-> "apply_to_linkedin_job",
                        entered |-> entered,
                        form |-> IF "form" \in DOMAIN entered THEN <<entered.form>> ELSE <<>>,
                        iterations |-> 0, page |-> "", before |-> 0]>>
    /\ UNCHANGED <<filter, job, last, first, others>>

\* one pass of the loop on the page state the browser shows
EasyApplyIteration ==
    /\ out # <<>> /\ out[1].form # <<>> /\ out[1].form[1].running
    /\ \E page \in PageStates :
          /\ out' = <<[out[1] EXCEPT !.form = <<Iteration(job, out[1].form[1], page)>>,
                                     !.iterations = @ + 1,
                                     !.page = page,
                                     !.before = out[1].form[1].current_step]>>
          /\ applicator' = [applicator EXCEPT !.application_count =
                               Iteration(job, out[1].form[1], page).application_count]
    /\ UNCHANGED <<filter, job, last, first, jobs, emailer, bot, scraper>>

InitEasyApply ==
    /\ \E daily_limits \in ApplyLimits : applicator = JobApplicatorNew(FullConfig, daily_limits)
    /\ filter = JobFilterNew(FullConfig)
    /\ job \in EasyApplyJobs
    /\ last = <<>>
    /\ first = <<>>
    /\ out = <<>>
    /\ jobs = <<>> /\ emailer = <<>> /\ bot = <<>> /\ scraper = <<>>

NextEasyApply == EasyApplyOpen \/ EasyApplyIteration

SpecEasyApply == InitEasyApply /\ [][NextEasyApply]_vars

\* the most records handed to one apply_to_jobs call
MaxApplyBatch == 2

Session(entry, pages, filled) == [entry |-> entry, pages |-> pages, filled |-> filled]

\* what a site can answer to one record
LinkedInSessions ==
    {Session("login", <<>>, FALSE)}
    \cup {Session("form", p, FALSE) : p \in {<<"next", "both">>, <<"fault", "neither">>}}
NaukriSessions ==
    {Session(e, <<>>, FALSE) : e \in {"external", "applied"}}
    \cup {Session("form", <<>>, TRUE)}
IndeedSessions ==
    {Session("form", <<>>, f) : f \in BOOLEAN}
NoSession == Session("", <<>>, FALSE)

\* the sessions the browser can have on a record
SessionsOf(job_data) ==
    IF job_data.t # "dict" \/ "source" \notin DOMAIN job_data.v THEN {NoSession}
    ELSE IF Site(job_data) = "apply_to_linkedin_job" THEN LinkedInSessions
    ELSE IF Site(job_data) = "apply_to_naukri_job" THEN NaukriSessions
    ELSE IF Site(job_data) = "apply_to_indeed_job" THEN IndeedSessions
    ELSE {NoSession}

\* one session for each record of the list
SessionLists(job_list) ==
    {s \in [DOMAIN job_list -> LinkedInSessions \cup NaukriSessions \cup IndeedSessions
                                  \cup {NoSession}] :
        \A i \in DOMAIN job_list : s[i] \in SessionsOf(job_list[i])}

\* the records handed to apply_to_jobs: accepted ones of each source, a
\* rejected one, and records that lack a field or are None
ApplyJobs ==
    {Posted(GoodJob, "LinkedIn"), Posted(GoodJob, "Naukri"), Posted(GoodJob, "Indeed"),
     Posted(GoodJob, "Glassdoor"), Posted(BadJob, "LinkedIn"),
     Lacking(Posted(GoodJob, "LinkedIn"), "company"),
     NoneJob}

\* one call applicator.apply_to_jobs(jobs)
ApplyToJobs ==
    /\ \E filter_results \in {Filtered(applicator, jobs)} :
       \E browser \in BOOLEAN, sessions \in SessionLists(jobs) :
       \E run \in {apply_to_jobs(applicator, jobs, filter_results, browser, sessions)} :
          /\ applicator' = run.self
          /\ out' = <<[op |-> "apply_to_jobs", arg |-> jobs,
                       filter_results |-> filter_results,
                       before |-> applicator.application_count,
                       ret |-> run.application_results,
                       calls |-> run.calls,
                       fault |-> run.fault]>>
    /\ UNCHANGED <<filter, job, last, first, jobs, emailer, bot, scraper>>

InitApply ==
    /\ \E daily_limits \in ApplyLimits : applicator = JobApplicatorNew(FullConfig, daily_limits)
    /\ filter = JobFilterNew(FullConfig)
    /\ job = NoneJob
    /\ last = <<>>
    /\ first = <<>>
    /\ out = <<>>
    /\ jobs \in Batches(ApplyJobs, MaxApplyBatch)
    /\ emailer = <<>> /\ bot = <<>> /\ scraper = <<>>

NextApply == ApplyToJobs

SpecApply == InitApply /\ [][NextApply]_vars

(***************************************************************************)
(* EmailManager.send_job_application_emails (emailer.py).  The messages    *)
(* themselves are left out: creating one either works or raises.  sent_at, *)
(* a time stamp, is left out of the results.                               *)
(***************************************************************************)
\* EmailManager.__init__: the counter and the daily limit
EmailManagerNew(config) ==
    IF "max_hr_emails" \notin DOMAIN config["daily_limits"]
    THEN Raise(KeyError("max_hr_emails"))
    ELSE [config |-> config,
          email_count |-> 0,
          daily_limit |-> config["daily_limits"]["max_hr_emails"]]

\* msg['From'] = self.config['email_config']['sender_email'], the first
\* statement of both create_..._email operations that can fail
create_job_application_email(self, job_data) ==
    IF "email_config" \notin DOMAIN self.config THEN Raise(KeyError("email_config"))
    ELSE Return("formal_application")

create_networking_email(self, contact_data) ==
    IF "email_config" \notin DOMAIN self.config THEN Raise(KeyError("email_config"))
    ELSE Return("networking")

\* if self.email_count > self.daily_limit
EmailLimitPassed(self) == self.email_count > self.daily_limit

\* if self.email_count >= self.daily_limit
EmailLimitReached(self) == self.email_count >= self.daily_limit

\* random.uniform(email_delay_min, email_delay_max): the fault of reading the
\* two settings
EmailDelayRead(self) ==
    IF "email_delay_min" \notin DOMAIN self.config["daily_limits"]
    THEN <<KeyError("email_delay_min")>>
    ELSE IF "email_delay_max" \notin DOMAIN self.config["daily_limits"]
    THEN <<KeyError("email_delay_max")>>
    ELSE <<>>

\* except Exception as e: the log line reads job['title']; what it raises
\* leaves send_job_application_emails
Logged(run, job_data) == [run EXCEPT !.fault = Subscripted(job_data, <<"title">>)]

\* the result appended for a contact, success being True
EmailResult(job_data, contact, email_type) ==
    [job_title |-> Get(job_data, "title"),
     company |-> Get(job_data, "company"),
     recipient_email |-> contact.email,
     recipient_name |-> contact.name,
     email_type |-> email_type,
     contact_source |-> contact.source,
     confidence |-> contact.confidence,
     success |-> TRUE]

\* the result is appended and the counter raised; log notes, for the
\* properties, the record and the counter before and after
Sent(run, job_data, i, contact, email_type) ==
    [self |-> [run.self EXCEPT !.email_count = @ + 1],
     email_results |-> Append(run.email_results, EmailResult(job_data, contact, email_type)),
     log |-> Append(run.log, [job |-> i, before |-> run.self.email_count,
                              after |-> run.self.email_count + 1]),
     fault |-> <<>>]

\* the try block for one contact
SendTo(run, job_data, i, contact, created) ==
    IF Raised(created) THEN Logged(run, job_data)
    ELSE IF Subscripted(job_data, <<"title", "company">>) # <<>> THEN Logged(run, job_data)
    ELSE IF EmailDelayRead(run.self) # <<>>
    THEN Logged(Sent(run, job_data, i, contact, created.value), job_data)
    ELSE Sent(run, job_data, i, contact, created.value)

\* for contact in contacts[:2], from the k-th on
RECURSIVE ContactLoop(_, _, _, _, _)
ContactLoop(run, job_data, i, contacts, k) ==
    IF k > Len(contacts) \/ run.fault # <<>> THEN run
    ELSE IF EmailLimitReached(run.self) THEN run
    ELSE ContactLoop(SendTo(run, job_data, i, contacts[k],
                            IF contacts[k].source = "job_description"
                            THEN create_job_application_email(run.self, job_data)
                            ELSE create_networking_email(run.self, contacts[k])),
                     job_data, i, contacts, k + 1)

\* contacts[:2]
TopContacts(contacts) == Take(contacts, 2)

\* the pass of the outer loop for a record whose contacts were extracted
EmailJob(run, job_data, i, contacts) ==
    IF contacts = <<>>
    THEN IF job_data.t # "dict"
         THEN [run EXCEPT !.fault = <<AttributeError(job_data, "get")>>]
         ELSE run
    ELSE ContactLoop(run, job_data, i, TopContacts(contacts), 1)

\* for job in jobs_with_contacts, from the i-th on
RECURSIVE EmailLoop(_, _, _)
EmailLoop(run, job_list, i) ==
    IF i > Len(job_list) \/ run.fault # <<>> THEN run
    ELSE IF EmailLimitReached(run.self) THEN run
    ELSE EmailLoop(EmailJob(run, job_list[i], i, extract_hr_contacts(job_list[i]).result),
                   job_list, i + 1)

\* send_job_application_emails(jobs_with_contacts): the object after the call,
\* the results collected, and the fault that left the call, if one did
send_job_application_emails(self, job_list) ==
    EmailLoop([self |-> self, email_results |-> <<>>, log |-> <<>>, fault |-> <<>>],
              job_list, 1)

\* the largest max_hr_emails tried, the most records in one call
MaxHrEmails == 4
MaxEmailBatch == 2

EmailLimits ==
    {[max_hr_emails |-> n, email_delay_min |-> 30, email_delay_max |-> 120] :
        n \in 0..MaxHrEmails}
    \cup {[max_hr_emails |-> MaxHrEmails]}

EmailConfigs ==
    {[daily_limits |-> l, email_config |-> [sender_email |-> "me@example.com"]] :
        l \in EmailLimits}
    \cup {[daily_limits |-> l] : l \in EmailLimits}

\* records with three contacts, with none, and ones the log lines fail on
EmailJobs ==
    {ContactJob(Str("Acme\\"), Str("Selenium and pytest"), Str("Pune")),
     ContactJob(Str("Tech\\"), Str("Selenium and pytest"), Str("Pune")),
     ContactJob(Str("Acme"), Str("Selenium and pytest"), Str("Pune")),
     Lacking(ContactJob(Str("Acme\\"), Str("Selenium and pytest"), Str("Pune")), "title"),
     NoneJob}

\* one call emailer.send_job_application_emails(jobs)
SendJobApplicationEmails ==
    /\ \E run \in {send_job_application_emails(emailer, jobs)} :
          /\ emailer' = run.self
          /\ out' = <<[op |-> "send_job_application_emails", arg |-> jobs,
                       before |-> emailer.email_count,
                       ret |-> IF run.fault = <<>> THEN Return(run.email_results)
                               ELSE Raise(run.fault[1]),
                       email_results |-> run.email_results,
                       log |-> run.log]>>
    /\ UNCHANGED <<filter, job, last, first, jobs, applicator, bot, scraper>>

InitEmails ==
    /\ \E config \in EmailConfigs : emailer = EmailManagerNew(config)
    /\ filter = JobFilterNew(FullConfig)
    /\ job = NoneJob
    /\ last = <<>>
    /\ first = <<>>
    /\ out = <<>>
    /\ jobs \in Batches(EmailJobs, MaxEmailBatch)
    /\ applicator = <<>> /\ bot = <<>> /\ scraper = <<>>

NextEmails == SendJobApplicationEmails

SpecEmails == InitEmails /\ [][NextEmails]_vars

(***************************************************************************)
(* ManiJobSearchBot (main.py): the two daily routines.  What a routine     *)
(* meets is the environment: the hour it runs at, the number of scraped    *)
(* records the filter accepts (relevant), what the applications end with   *)
(* (statuses), whether the reporter saves without raising (saved) and      *)
(* whether the records left for outreach have contacts (outreach).  Of     *)
(* daily_stats the application and e-mail counters, start_time and         *)
(* last_run are kept; the clock counts hours since the bot was built.      *)
(***************************************************************************)
HoursPerDay == 24

\* ManiJobSearchBot.__init__
BotNew(daily_limits, test_mode) ==
    [config |-> [daily_limits |-> daily_limits],
     test_mode |-> test_mode,
     daily_stats |-> [applications_attempted |-> 0, applications_successful |-> 0,
                      emails_sent |-> 0, start_time |-> 0, last_run |-> "None"]]

\* reset_daily_stats: last_run is not among the entries it sets
reset_daily_stats(self, now) ==
    [self EXCEPT !.daily_stats =
        [applications_attempted |-> 0, applications_successful |-> 0,
         emails_sent |-> 0, start_time |-> now, last_run |-> @.last_run]]

\* "Reset daily counters for new day"
Reset(self, now) ==
    IF self.daily_stats.last_run # "morning"
       \/ (now - self.daily_stats.start_time) \div HoursPerDay >= 1
    THEN reset_daily_stats(self, now)
    ELSE self

\* apply_to_jobs on records the filter accepts, the i-th application ending
\* with statuses[i]: one result per record until the applicator's limit
RECURSIVE AppliedTo(_, _, _, _)
AppliedTo(self, statuses, i, application_results) ==
    IF i > Len(statuses) \/ LimitReached(self)
    THEN [self |-> self, application_results |-> application_results]
    ELSE AppliedTo([self EXCEPT !.application_count =
                        IF statuses[i] = "success" THEN @ + 1 ELSE @],
                   statuses, i + 1, Append(application_results, statuses[i]))

\* simulate_applications in test mode, apply_to_jobs otherwise
Applications(self, applicator_, statuses) ==
    IF self.test_mode
    THEN [self |-> applicator_, application_results |-> statuses]
    ELSE AppliedTo(applicator_, statuses, 1, <<>>)

\* "Update stats"
Counted_(self, application_results) ==
    [self EXCEPT
        !.daily_stats.applications_attempted = @ + Len(application_results),
        !.daily_stats.applications_successful =
            @ + Cardinality({i \in DOMAIN application_results :
                                application_results[i] = "success"})]

\* the e-mails of the outreach step that succeed: simulate_emails writes to
\* at most 10 records, send_job_application_emails to two contacts of each
\* record within the e-mail limit
Outreach(self, emailer_, remaining, outreach) ==
    IF ~outreach THEN 0
    ELSE IF self.test_mode THEN Min2(remaining, 10)
    ELSE Max2(0, Min2(2 * remaining, emailer_.daily_limit - emailer_.email_count))

\* what a routine leaves: the three objects, and for the properties the
\* number of records handed to the applicator and the counter at that moment
Ran(self, applicator_, emailer_, handed, before) ==
    [self |-> self, applicator |-> applicator_, emailer |-> emailer_,
     handed |-> handed, before |-> before]

\* morning_routine from "Step 3" on, for a positive number of relevant records
MorningBatch(self, applicator_, emailer_, relevant, morning_limit, applied, saved, sent) ==
    IF ~saved
    THEN Ran(Counted_(self, applied.application_results), applied.self, emailer_,
             Min2(relevant, morning_limit), self.daily_stats.applications_attempted)
    ELSE Ran([Counted_(self, applied.application_results) EXCEPT
                 !.daily_stats.emails_sent = @ + sent,
                 !.daily_stats.last_run = "morning"],
             applied.self,
             IF self.test_mode THEN emailer_
             ELSE [emailer_ EXCEPT !.email_count = @ + sent],
             Min2(relevant, morning_limit), self.daily_stats.applications_attempted)

morning_routine(self, applicator_, emailer_, now, relevant, statuses, saved, outreach) ==
    IF relevant = 0
    THEN Ran(Reset(self, now), applicator_, emailer_, 0,
             Reset(self, now).daily_stats.applications_attempted)
    ELSE MorningBatch(Reset(self, now), applicator_, emailer_, relevant,
                      self.config["daily_limits"]["morning_applications"],
                      Applications(self, applicator_,
                                   Take(statuses,
                                        Min2(relevant,
                                             self.config["daily_limits"]["morning_applications"]))),
                      saved,
                      Outreach(self, emailer_,
                               Max2(0, Min2(relevant
                                            - self.config["daily_limits"]["morning_applications"],
                                            15)),
                               outreach))

\* evening_routine from "Apply to evening batch" on
EveningBatch(self, applicator_, emailer_, evening_applications, applied, saved) ==
    IF ~saved
    THEN Ran(Counted_(self, applied.application_results), applied.self, emailer_,
             evening_applications, self.daily_stats.applications_attempted)
    ELSE Ran([Counted_(self, applied.application_results) EXCEPT
                 !.daily_stats.last_run = "evening"],
             applied.self, emailer_,
             evening_applications, self.daily_stats.applications_attempted)

\* remaining_quota = max_applications - applications_attempted
RemainingQuota(self) ==
    self.config["daily_limits"]["max_applications"]
        - self.daily_stats.applications_attempted

evening_routine(self, applicator_, emailer_, relevant, statuses, saved) ==
    IF relevant > 0 /\ RemainingQuota(self) > 0
    THEN EveningBatch(self, applicator_, emailer_,
                      Min2(relevant,
                           Min2(self.config["daily_limits"]["evening_applications"],
                                RemainingQuota(self))),
                      Applications(self, applicator_,
                                   Take(statuses,
                                        Min2(relevant,
                                             Min2(self.config["daily_limits"]["evening_applications"],
                                                  RemainingQuota(self))))),
                      saved)
    ELSE Ran([self EXCEPT !.daily_stats.last_run = "evening"], applicator_, emailer_,
             0, self.daily_stats.applications_attempted)

\* the largest settings tried, the most relevant records of one scrape, the
\* hours the bot is followed for
MaxMorning == 2
MaxEvening == 2
MaxApplications == 3
MaxRelevant == 3
MaxClock == 33

\* the hours between one run and the next
Waits == {9, 24}

Statuses == {"success", "failed"}

\* the daily_limits sections with morning_applications <= max_applications
BotLimits ==
    {[morning_applications |-> m, evening_applications |-> e, max_applications |-> x] :
        m \in 1..MaxMorning, e \in 1..MaxEvening, x \in 1..MaxApplications}
    \ {l \in [morning_applications : 1..MaxMorning, evening_applications : 1..MaxEvening,
              max_applications : 1..MaxApplications] :
          l.morning_applications > l.max_applications}

\* one run of morning_routine
MorningRoutine ==
    /\ \E wait \in Waits, relevant \in 0..MaxRelevant, saved \in BOOLEAN, outreach \in BOOLEAN :
       \E statuses \in [1..MaxRelevant -> Statuses] :
       \E run \in {morning_routine(bot.self, applicator, emailer, bot.now + wait,
                                   relevant, statuses, saved, outreach)} :
          /\ bot.now + wait <= MaxClock
          /\ bot' = [self |-> run.self, now |-> bot.now + wait]
          /\ applicator' = run.applicator
          /\ emailer' = run.emailer
          /\ out' = <<[op |-> "morning_routine", handed |-> run.handed,
                       before |-> run.before, quota |-> 0]>>
    /\ UNCHANGED <<filter, job, last, first, jobs, scraper>>

\* one run of evening_routine
EveningRoutine ==
    /\ \E wait \in Waits, relevant \in 0..MaxRelevant, saved \in BOOLEAN :
       \E statuses \in [1..MaxRelevant -> Statuses] :
       \E run \in {evening_routine(bot.self, applicator, emailer, relevant, statuses, saved)} :
          /\ bot.now + wait <= MaxClock
          /\ bot' = [self |-> run.self, now |-> bot.now + wait]
          /\ applicator' = run.applicator
          /\ emailer' = run.emailer
          /\ out' = <<[op |-> "evening_routine", handed |-> run.handed,
                       before |-> run.before, quota |-> RemainingQuota(bot.self)]>>
    /\ UNCHANGED <<filter, job, last, first, jobs, scraper>>

InitBot ==
    /\ \E daily_limits \in BotLimits, test_mode \in BOOLEAN :
          /\ bot = [self |-> BotNew(daily_limits, test_mode), now |-> 0]
          /\ applicator = JobApplicatorNew(FullConfig, daily_limits)
          /\ emailer = EmailManagerNew([daily_limits |-> [max_hr_emails |-> 2]])
    /\ filter = JobFilterNew(FullConfig)
    /\ job = NoneJob
    /\ last = <<>>
    /\ first = <<>>
    /\ out = <<>>
    /\ jobs = <<>>
    /\ scraper = <<>>

NextBot == MorningRoutine \/ EveningRoutine

SpecBot == InitBot /\ [][NextBot]_vars

(***************************************************************************)
(* JobScraper (scrapers.py).  The sites are the environment: for a         *)
(* location each serves a listing, a sequence of cards; a card gives the   *)
(* href of the title link (PyNone when the attribute is absent), the title *)
(* and the company (PyNone when the element is missing).  Of a scraped     *)
(* record the title, company, url and source are kept.                     *)
(***************************************************************************)
Card(href, title, company) == [href |-> href, title |-> title, company |-> company]

\* JobScraper.__init__
JobScraperNew(config) == [config |-> config, scraped_urls |-> {}]

\* the cards read from one page
LinkedInPerSearch == 15
NaukriPerSearch == 15
IndeedPerSearch == 15
TimesJobsPerSearch == 10

PerSearch(source) ==
    IF source = "LinkedIn" THEN LinkedInPerSearch
    ELSE IF source = "Naukri" THEN NaukriPerSearch
    ELSE IF source = "Indeed" THEN IndeedPerSearch
    ELSE TimesJobsPerSearch

\* title_link.get('href', '')
HrefOr(card) == IF card.href = PyNone THEN "" ELSE card.href.v

\* job_url as each scraper forms it
JobUrl(source, card) ==
    IF source = "LinkedIn" THEN card.href
    ELSE IF source = "Naukri"
    THEN IF HrefOr(card) # "" /\ ~StartsAt(HrefOr(card), 1, "http")
         THEN Str("https://www.naukri.com" \o HrefOr(card))
         ELSE Str(HrefOr(card))
    ELSE IF source = "Indeed" THEN Str("https://in.indeed.com" \o HrefOr(card))
    ELSE Str(HrefOr(card))

\* no url counts as scraped before
KnownNever(self, job_url) == FALSE

\* if job_url in self.scraped_urls
Known(self, job_url) == job_url \in self.scraped_urls

ScrapedJob(source, card, job_url) ==
    Dict([title |-> Str(card.title),
          company |-> IF card.company = PyNone THEN Str("Company not specified")
                      ELSE card.company,
          url |-> job_url,
          source |-> Str(source)])

\* the loop over the cards of a page, from the i-th on: a url met before is
\* passed over, a new one is noted; on LinkedIn a card without a company
\* element raises after its url was noted and is passed over too
RECURSIVE ScrapeCards(_, _, _, _, _)
ScrapeCards(self, source, cards, i, job_list) ==
    IF i > Len(cards) THEN [self |-> self, jobs |-> job_list]
    ELSE IF Known(self, JobUrl(source, cards[i]))
    THEN ScrapeCards(self, source, cards, i + 1, job_list)
    ELSE IF source = "LinkedIn" /\ cards[i].company = PyNone
    THEN ScrapeCards([self EXCEPT !.scraped_urls = @ \cup {JobUrl(source, cards[i])}],
                     source, cards, i + 1, job_list)
    ELSE ScrapeCards([self EXCEPT !.scraped_urls = @ \cup {JobUrl(source, cards[i])}],
                     source, cards, i + 1,
                     Append(job_list, ScrapedJob(source, cards[i], JobUrl(source, cards[i]))))

\* scrape_linkedin_jobs, scrape_naukri_jobs, scrape_indeed_jobs and
\* scrape_timesjobs on the listing the site serves
scrape_site(self, source, listing) ==
    ScrapeCards(self, source, Take(listing, PerSearch(source)), 1, <<>>)

\* the searches one after the other, each extending all_jobs
RECURSIVE SearchAll(_, _, _, _, _)
SearchAll(self, web, searches, i, all_jobs) ==
    IF i > Len(searches) THEN [self |-> self, jobs |-> all_jobs]
    ELSE LET run == scrape_site(self, searches[i].source, web[searches[i].location])
         IN  SearchAll(run.self, web, searches, i + 1, all_jobs \o run.jobs)

Search(source, location) == [source |-> source, location |-> location]

MajorCities == {"hyderabad", "bangalore", "chennai", "pune", "mumbai", "delhi"}

\* the searches scrape_all_sites makes for one location
SiteSearches(location) ==
    <<Search("LinkedIn", location), Search("Naukri", location), Search("Indeed", location)>>
    \o (IF Lower(location) \in MajorCities THEN <<Search("TimesJobs", location)>> ELSE <<>>)

RECURSIVE AllSearches(_, _)
AllSearches(search_locations, i) ==
    IF i > Len(search_locations) THEN <<>>
    ELSE SiteSearches(search_locations[i]) \o AllSearches(search_locations, i + 1)

\* "Remove duplicates based on URL"
RECURSIVE Deduplicated(_, _, _, _)
Deduplicated(all_jobs, i, seen_urls, unique_jobs) ==
    IF i > Len(all_jobs) THEN unique_jobs
    ELSE IF Truthy(Get(all_jobs[i], "url"))
    THEN IF Get(all_jobs[i], "url") \notin seen_urls
         THEN Deduplicated(all_jobs, i + 1, seen_urls \cup {Get(all_jobs[i], "url")},
                           Append(unique_jobs, all_jobs[i]))
         ELSE Deduplicated(all_jobs, i + 1, seen_urls, unique_jobs)
    ELSE IF Str(Format(Get(all_jobs[i], "title")) \o "-"
                \o Format(Get(all_jobs[i], "company"))) \notin seen_urls
    THEN Deduplicated(all_jobs, i + 1,
                      seen_urls \cup {Str(Format(Get(all_jobs[i], "title")) \o "-"
                                          \o Format(Get(all_jobs[i], "company")))},
                      Append(unique_jobs, all_jobs[i]))
    ELSE Deduplicated(all_jobs, i + 1, seen_urls, unique_jobs)

\* scrape_all_sites, given what the searches brought
AllSites(searched) ==
    [self |-> searched.self, all_jobs |-> searched.jobs,
     jobs |-> Deduplicated(searched.jobs, 1, {}, <<>>)]

scrape_all_sites(self, web) ==
    AllSites(SearchAll(self, web,
                       AllSearches(IF Len(self.config["job_preferences"]["locations"]) > 3
                                   THEN Take(self.config["job_preferences"]["locations"], 3)
                                   ELSE self.config["job_preferences"]["locations"], 1),
                       1, <<>>))

\* the searches of search_specific_keywords: LinkedIn and Naukri for each of
\* n keywords in each of the first two locations
RECURSIVE KeywordSearches(_, _, _)
KeywordSearches(n, locations, i) ==
    IF n = 0 THEN <<>>
    ELSE IF i > Len(locations) THEN KeywordSearches(n - 1, locations, 1)
    ELSE <<Search("LinkedIn", locations[i]), Search("Naukri", locations[i])>>
         \o KeywordSearches(n, locations, i + 1)

search_specific_keywords(self, web, n) ==
    SearchAll(self, web,
              KeywordSearches(n, Take(self.config["job_preferences"]["locations"], 2), 1),
              1, <<>>)

\* the most cards of a listing, the most keywords of one search
MaxCards == 2
MaxKeywords == 2

ScraperConfig ==
    [job_preferences |-> [roles |-> <<"QA Engineer">>, locations |-> <<"Hyderabad", "Remote">>]]

Cards ==
    {Card(Str("/job/1"), "QA Engineer", Str("Acme")),
     Card(Str("/job/1"), "QA Engineer", PyNone),
     Card(Str("https://jobs.example.com/2"), "SDET", Str("Initech")),
     Card(Str(""), "QA Engineer", Str("Acme")),
     Card(PyNone, "QA Engineer", Str("Acme"))}

\* what the sites serve for the second location: a posting also listed for the
\* first, and one of its own
RemoteListing ==
    <<Card(Str("/job/1"), "QA Engineer", Str("Acme")),
      Card(Str("/job/3"), "Test Analyst", Str("Globex"))>>

\* the urls of the records of a list, and those that occur twice in it
UrlsOf(job_list) == {Get(job_list[i], "url") : i \in DOMAIN job_list}
TwiceIn(job_list) ==
    {Get(job_list[i], "url") : i \in {i \in DOMAIN job_list :
        \E k \in DOMAIN job_list : k # i /\ Get(job_list[k], "url") = Get(job_list[i], "url")}}

\* what is noted of a call: the list returned, for scrape_all_sites the list
\* before the duplicates were removed, the urls returned by the calls so far
\* and those among them returned a second time
Scraped(op, run, all_jobs) ==
    [op |-> op, ret |-> run.jobs, all_jobs |-> all_jobs,
     returned |-> (IF out = <<>> THEN {} ELSE out[1].returned) \cup UrlsOf(run.jobs),
     repeated |-> (IF out = <<>> THEN {} ELSE out[1].repeated)
                  \cup TwiceIn(run.jobs)
                  \cup (UrlsOf(run.jobs) \cap (IF out = <<>> THEN {} ELSE out[1].returned))]

\* one call of one of the four site scrapers
ScrapeSite(source) ==
    /\ \E location \in DOMAIN scraper.web :
       \E run \in {scrape_site(scraper.self, source, scraper.web[location])} :
          /\ scraper' = [scraper EXCEPT !.self = run.self]
          /\ out' = <<Scraped("scrape_site", run, run.jobs)>>
    /\ UNCHANGED <<filter, job, last, first, jobs, applicator, emailer, bot>>

ScrapeLinkedinJobs == ScrapeSite("LinkedIn")
ScrapeNaukriJobs == ScrapeSite("Naukri")
ScrapeIndeedJobs == ScrapeSite("Indeed")
ScrapeTimesjobs == ScrapeSite("TimesJobs")

\* one call scraper.scrape_all_sites()
ScrapeAllSites ==
    /\ \E run \in {scrape_all_sites(scraper.self, scraper.web)} :
          /\ scraper' = [scraper EXCEPT !.self = run.self]
          /\ out' = <<Scraped("scrape_all_sites", run, run.all_jobs)>>
    /\ UNCHANGED <<filter, job, last, first, jobs, applicator, emailer, bot>>

\* one call scraper.search_specific_keywords(keywords_list)
SearchSpecificKeywords ==
    /\ \E n \in 1..MaxKeywords :
       \E run \in {search_specific_keywords(scraper.self, scraper.web, n)} :
          /\ scraper' = [scraper EXCEPT !.self = run.self]
          /\ out' = <<Scraped("search_specific_keywords", run, run.jobs)>>
    /\ UNCHANGED <<filter, job, last, first, jobs, applicator, emailer, bot>>

InitScraper ==
    /\ \E listing \in Batches(Cards, MaxCards) :
          scraper = [self |-> JobScraperNew(ScraperConfig),
                     web |-> [Hyderabad |-> listing, Remote |-> RemoteListing]]
    /\ filter = JobFilterNew(FullConfig)
    /\ job = NoneJob
    /\ last = <<>>
    /\ first = <<>>
    /\ out = <<>>
    /\ jobs = <<>>
    /\ applicator = <<>> /\ emailer = <<>> /\ bot = <<>>

NextScraper ==
    \/ ScrapeLinkedinJobs
    \/ ScrapeNaukriJobs
    \/ ScrapeIndeedJobs
    \/ ScrapeTimesjobs
    \/ ScrapeAllSites
    \/ SearchSpecificKeywords

SpecScraper == InitScraper /\ [][NextScraper]_vars

(***************************************************************************)
(* What the properties below read off a state                              *)
(***************************************************************************)
\* a filter_job call has returned
Called == last # <<>>

\* the lower-cased title and description of the record of the latest call
LastText ==
    Lower(Format(Get(last[1].job, "title")) \o " "
          \o Format(Get(last[1].job, "description")))

\* the configuration has the keyword list of this name
Configured(name) == name \in DOMAIN filter.keywords

\* the positions of the keywords of a list that occur in a text
Hits(keywords, text) == {i \in DOMAIN keywords : Contains(keywords[i], text)}

\* the positions of the configured keywords of a list that occur in LastText
Found(name) == Hits(filter.keywords[name], LastText)

\* the latest call invoked this stage operation
Invoked(op) == \E i \in DOMAIN last[1].calls : last[1].calls[i].op = op

\* what the stage operation returned or raised in the latest call
Ret(op) ==
    last[1].calls[CHOOSE i \in DOMAIN last[1].calls : last[1].calls[i].op = op].ret

\* a sentence occurs at the start of a text
StartsWith(text, prefix) == StartsAt(text, 1, prefix)

(***************************************************************************)
(* Role relevance                                                          *)
(***************************************************************************)
\* C1: a record whose lower-cased title and description hold fewer than 2 of
\* the configured positive keywords is not relevant, whatever its location,
\* experience, salary, negative or fresher-friendly content
C1_FewPositiveNotRelevant ==
    (Called /\ Configured("positive") /\ Cardinality(Found("positive")) < 2)
        => ~last[1].result.is_relevant

\* such a record, with a preferred location and fresher-friendly wording
C1_Witness ==
    /\ Called
    /\ Configured("positive") /\ Cardinality(Found("positive")) = 1
    /\ Configured("fresher_friendly") /\ Found("fresher_friendly") # {}
    /\ Get(last[1].job, "location") = Str("Hyderabad")
    /\ ~last[1].result.is_relevant
    /\ last[1].result.reason = "Insufficient QA/Testing keywords"

\* C2: a record whose text holds a negative keyword and no fresher-friendly
\* keyword is rejected however many positive keywords match; when at least 2
\* positive keywords match, the reason of the rejection is the one of the role
\* check and names the negative keywords found, and only those
C2_NegativeWithoutFresherRejected ==
    (/\ Called
     /\ Configured("negative") /\ Found("negative") # {}
     /\ Configured("fresher_friendly") /\ Found("fresher_friendly") = {})
        => /\ ~last[1].result.is_relevant
           /\ (Configured("positive") /\ Cardinality(Found("positive")) >= 2)
                 => /\ StartsWith(last[1].result.reason, "High experience requirement: ")
                    /\ \A i \in DOMAIN filter.keywords["negative"] :
                          Contains("'" \o filter.keywords["negative"][i] \o "'",
                                   last[1].result.reason)
                              <=> i \in Found("negative")

\* a record with two negative keywords, five positive ones and no
\* fresher-friendly one, rejected with both negative keywords named
C2_Witness ==
    /\ Called
    /\ Configured("negative") /\ Cardinality(Found("negative")) = 2
    /\ Configured("fresher_friendly") /\ Found("fresher_friendly") = {}
    /\ Configured("positive") /\ Cardinality(Found("positive")) >= 2
    /\ ~last[1].result.is_relevant
    /\ last[1].result.reason = "High experience requirement: ['senior', 'lead']"

\* C3: for a text with at least 2 positive keywords, at least 1 negative keyword
\* and at least 1 fresher-friendly keyword, is_relevant_role accepts, with
\* is_relevant true and fresher_friendly true
C3_FresherOverridesNegative ==
    (/\ Called
     /\ Configured("positive") /\ Cardinality(Found("positive")) >= 2
     /\ Configured("negative") /\ Found("negative") # {}
     /\ Configured("fresher_friendly") /\ Found("fresher_friendly") # {})
        => /\ Invoked("is_relevant_role")
           /\ ~Raised(Ret("is_relevant_role"))
           /\ Ret("is_relevant_role").is_relevant
           /\ Ret("is_relevant_role").fresher_friendly

\* a text with a negative and a fresher-friendly keyword that the role check
\* accepted
C3_Witness ==
    /\ Called
    /\ Configured("positive") /\ Cardinality(Found("positive")) >= 2
    /\ Configured("negative") /\ Found("negative") # {}
    /\ Configured("fresher_friendly") /\ Found("fresher_friendly") # {}
    /\ Invoked("is_relevant_role")
    /\ ~Raised(Ret("is_relevant_role"))
    /\ Ret("is_relevant_role").is_relevant

(***************************************************************************)
(* filter_job as a function of the record and the configuration            *)
(***************************************************************************)
\* a later call on the record under study returns what the first one did
SameAsFirst ==
    (Called /\ last[1].job = job) => (first # <<>> /\ last[1].result = first[1].result)

StageOrder ==
    <<"is_relevant_role", "is_location_match", "calculate_experience_match",
      "extract_salary", "select_resume">>

\* the keys of details, in stage order
DetailKeys == <<"role_check", "location_check", "experience_check", "salary_info">>

\* a salary the salary stage rejects
OutOfRange(salary_info) ==
    salary_info.found /\ (\/ salary_info.max_salary < filter.min_salary * FloatScale
                          \/ salary_info.min_salary > filter.max_salary * FloatScale)

\* the i-th check of the latest call was made and passed
Passed(i) ==
    /\ Len(last[1].calls) >= i
    /\ ~Raised(last[1].calls[i].ret)
    /\ CASE i = 1 -> last[1].calls[i].ret.is_relevant
         [] i = 2 -> last[1].calls[i].ret.is_match
         [] i = 3 -> last[1].calls[i].ret.is_match
         [] i = 4 -> ~OutOfRange(last[1].calls[i].ret)

\* the reason the i-th stage gives for rejecting
StageReason(i) ==
    IF i = 4 THEN "Salary " ELSE last[1].calls[i].ret.reason

\* C5: filter_job invokes the stages in the fixed order role, location,
\* experience, salary, resume selection; it returns is_relevant true if and
\* only if all four checks pass; when it rejects, the reason is the one of
\* the first failing stage and no later stage was invoked
C5_StagesInOrder ==
    Called =>
        /\ \A i \in DOMAIN last[1].calls : last[1].calls[i].op = StageOrder[i]
        /\ last[1].result.is_relevant <=> \A i \in 1..4 : Passed(i)
        /\ (last[1].fault = <<>> /\ ~last[1].result.is_relevant)
              => /\ Len(last[1].calls) \in 1..4
                 /\ \A i \in 1..(Len(last[1].calls) - 1) : Passed(i)
                 /\ ~Passed(Len(last[1].calls))
                 /\ StartsWith(last[1].result.reason, StageReason(Len(last[1].calls)))

\* C6: in a result returned without a fault the keys of details are the
\* first k of role_check, location_check, experience_check, salary_info, each
\* holding what its stage returned, where k is the position of the stage that
\* rejected, or 4 when the record is accepted
C6_DetailsArePrefix ==
    (Called /\ last[1].fault = <<>>) =>
        \E k \in 1..4 :
            /\ k = (IF last[1].result.is_relevant THEN 4 ELSE Len(last[1].calls))
            /\ DOMAIN last[1].result.details = {DetailKeys[i] : i \in 1..k}
            /\ \A i \in 1..k : last[1].result.details[DetailKeys[i]] = last[1].calls[i].ret
            /\ \A i \in 1..(k - 1) : Passed(i)
            /\ last[1].result.is_relevant <=> Passed(k)

\* a record rejected by the location stage, with two keys in details
C6_Witness ==
    /\ Called /\ last[1].fault = <<>>
    /\ ~last[1].result.is_relevant
    /\ Len(last[1].calls) = 2
    /\ DOMAIN last[1].result.details = {"role_check", "location_check"}

\* C7: a fault raised while a job is filtered does not leave filter_job: the
\* call returns a result with is_relevant false, a reason that holds the text
\* of the fault, resume_to_use '' and relevance_score 0, and without a details
\* entry for the faulting stage or a later one
C7_FaultsAreResults ==
    Called =>
        /\ ~Raised(last[1].result)
        /\ last[1].fault # <<>> =>
              /\ ~last[1].result.is_relevant
              /\ Contains(last[1].fault[1], last[1].result.reason)
              /\ last[1].result.resume_to_use = ""
              /\ last[1].result.relevance_score = 0
              /\ \A i \in DOMAIN DetailKeys :
                    i >= Len(last[1].calls)
                        => DetailKeys[i] \notin DOMAIN last[1].result.details

\* a record whose description is None, faulting in the experience stage
C7_Witness ==
    /\ Called
    /\ Get(last[1].job, "description") = PyNone
    /\ Len(last[1].calls) = 3 /\ Raised(last[1].calls[3].ret)
    /\ last[1].fault # <<>>
    /\ ~last[1].result.is_relevant

\* C8: for a record that passed the role, location and experience checks, the
\* salary stage rejects if and only if salary information was found and its
\* max_salary is below the configured min_salary or its min_salary is above
\* the configured max_salary; otherwise resume selection follows
C8_SalaryRejectsOutOfRange ==
    (Called /\ Invoked("extract_salary")) =>
        /\ (/\ last[1].fault = <<>>
            /\ ~last[1].result.is_relevant
            /\ Len(last[1].calls) = 4
            /\ StartsWith(last[1].result.reason, "Salary "))
              <=> OutOfRange(Ret("extract_salary"))
        /\ Invoked("select_resume") <=> ~OutOfRange(Ret("extract_salary"))

\* a found salary whose max_salary equals the configured min_salary, accepted
C8_Witness ==
    /\ Called /\ Invoked("extract_salary")
    /\ Ret("extract_salary").found
    /\ Ret("extract_salary").max_salary = filter.min_salary * FloatScale
    /\ Invoked("select_resume")
    /\ last[1].result.is_relevant

(***************************************************************************)
(* Resume selection and scores                                             *)
(***************************************************************************)
\* the configuration names the three resume files
ResumesConfigured ==
    /\ "resume_files" \in DOMAIN filter.config
    /\ {"qa_automation", "qa_entry", "qa_general"}
          \subseteq DOMAIN filter.config["resume_files"]

\* C9: select_resume returns the automation resume when the automation score
\* is at least 3 or the advanced score at least 2, and this before the
\* entry-level score is looked at; else the entry resume when the entry score
\* is at least 2; else the general resume: always one of the three configured
\* files
C9_ResumeCascade ==
    (Called /\ Invoked("select_resume") /\ ResumesConfigured) =>
        /\ ~Raised(Ret("select_resume"))
        /\ Ret("select_resume").value =
              (IF \/ Cardinality(Hits(automation_keywords, LastText)) >= 3
                  \/ Cardinality(Hits(advanced_project_keywords, LastText)) >= 2
               THEN filter.config["resume_files"]["qa_automation"]
               ELSE IF Cardinality(Hits(entry_keywords, LastText)) >= 2
               THEN filter.config["resume_files"]["qa_entry"]
               ELSE filter.config["resume_files"]["qa_general"])
        /\ Ret("select_resume").value \in
              {filter.config["resume_files"][k] :
                  k \in {"qa_automation", "qa_entry", "qa_general"}}

\* a text with automation score 3 and entry score 5: the automation resume
C9_Witness ==
    /\ Called /\ Invoked("select_resume") /\ ResumesConfigured
    /\ Cardinality(Hits(automation_keywords, LastText)) = 3
    /\ Cardinality(Hits(entry_keywords, LastText)) = 5
    /\ Cardinality(Hits(advanced_project_keywords, LastText)) = 0
    /\ Ret("select_resume") = Return("Mani_QA1.pdf")

\* C10: the score of an accepted role check is min(100, 10 * positive matches
\* + 5 * fresher-friendly matches); relevance_score of every result is in
\* 0..100, at least 20 when the record is accepted and 0 when it is rejected
C10_Scores ==
    Called =>
        /\ last[1].result.relevance_score \in 0..100
        /\ last[1].result.is_relevant => last[1].result.relevance_score >= 20
        /\ ~last[1].result.is_relevant => last[1].result.relevance_score = 0
        /\ (Invoked("is_relevant_role") /\ Passed(1)) =>
              Ret("is_relevant_role").score =
                  Min({100, 10 * Cardinality(Found("positive"))
                            + 5 * Cardinality(Found("fresher_friendly"))})

\* an accepted record with 11 positive keywords: the score is capped at 100
C10_Witness ==
    /\ Called
    /\ last[1].result.is_relevant
    /\ 10 * Cardinality(Found("positive")) + 5 * Cardinality(Found("fresher_friendly"))
          > 100
    /\ last[1].result.relevance_score = 100

(***************************************************************************)
(* The checkers                                                            *)
(***************************************************************************)
\* the operation was called on its own and has returned or raised
Did(op) == out # <<>> /\ out[1].op = op

\* the words of a text: its maximal runs of characters other than blanks
Words(text) ==
    {SubSeq(text, a, b) : a \in 1..Len(text), b \in 1..Len(text)} \cap
    {w \in {SubSeq(text, a, b) : a \in 1..Len(text), b \in 1..Len(text)} :
        /\ w # ""
        /\ ~Contains(" ", w)
        /\ Contains(" " \o w \o " ", " " \o text \o " ")}

\* one of the four rules of the location policy applies to a location field
LocationRuleApplies(location) ==
    \/ ~Truthy(location)
    \/ /\ location.t = "str"
       /\ \/ \E i \in DOMAIN filter.target_locations :
                Contains(Lower(filter.target_locations[i]), Lower(location.v))
          \/ \E i \in DOMAIN remote_indicators :
                Contains(remote_indicators[i], Lower(location.v))
          \/ \E i \in DOMAIN filter.target_locations :
                \E w \in Words(Lower(filter.target_locations[i])) :
                    Contains(w, Lower(location.v))

\* C11: is_location_match accepts if and only if the location is empty, or
\* holds a target location as a case-insensitive substring, or holds one of the
\* remote-work words, or holds a single word of a target location; a location
\* holding "remote" is accepted whatever target_locations is, the empty list
\* included
C11_LocationRules ==
    Did("is_location_match") =>
        /\ (~Raised(out[1].ret) /\ out[1].ret.is_match)
              <=> LocationRuleApplies(out[1].arg)
        /\ (out[1].arg.t = "str" /\ Contains("remote", Lower(out[1].arg.v)))
              => (~Raised(out[1].ret) /\ out[1].ret.is_match)

\* "Remote" accepted by a JobFilter whose target_locations is empty
C11_Witness ==
    /\ Did("is_location_match")
    /\ filter.target_locations = <<>>
    /\ out[1].arg = Str("Remote")
    /\ out[1].ret.is_match
    /\ out[1].ret.reason = "Remote work: remote"

\* no experience pattern has a match in a description
NoExperiencePattern(text) ==
    \A k \in 1..NumExpPatterns : ~ExpFindall(k, Lower(text)).ok

\* C12: calculate_experience_match accepts a description if and only if no
\* experience pattern matches it or the extracted required_exp is at most
\* 1.5 + 1 years, so that 0, 1 and 2 pass and 3 or more fail; a requirement
\* stated as one number is extracted as that number; on rejection the reason
\* cites the extracted requirement
C12_ExperienceVerdict ==
    (Did("calculate_experience_match") /\ out[1].arg.t = "str") =>
        /\ ~Raised(out[1].ret)
        /\ out[1].ret.is_match
              <=> (NoExperiencePattern(out[1].arg.v) \/ 2 * out[1].ret.required_exp <= 5)
        /\ ~NoExperiencePattern(out[1].arg.v)
              => (out[1].ret.is_match <=> out[1].ret.required_exp \in {0, 1, 2})
        /\ \A r \in SingleTexts :
              out[1].arg.v = r.text => out[1].ret.required_exp = r.n
        /\ ~out[1].ret.is_match
              => StartsWith(out[1].ret.reason,
                            "Requires " \o ToString(out[1].ret.required_exp) \o " years")

\* a description asking for 2 years, accepted
C12_Witness ==
    /\ Did("calculate_experience_match")
    /\ out[1].arg = Str("Minimum 2 years")
    /\ out[1].ret.required_exp = 2
    /\ out[1].ret.is_match

\* C13: for a requirement stated as a range x-y years or x to y years, with or
\* without "experience" or "of experience" after it, the requirement
\* calculate_experience_match uses is the smaller of x and y
C13_RangeJudgedOnMinimum ==
    Did("calculate_experience_match") =>
        \A r \in RangeTexts :
            out[1].arg = Str(r.text) =>
                /\ out[1].ret.required_exp = Min2(r.x, r.y)
                /\ out[1].ret.is_match <=> Min2(r.x, r.y) <= 2

\* the numbers a match of a salary pattern captured, in thousandths
Captured(m) == {ParseFloat(m.groups[j]) : j \in {j \in DOMAIN m.groups : m.groups[j] # ""}}

\* the salary information that belongs to a set of one or two numbers
InfoOf(N) ==
    [min_salary |-> Min(N), max_salary |-> CHOOSE a \in N : \A b \in N : b <= a,
     average_salary |-> (Min(N) + (CHOOSE a \in N : \A b \in N : b <= a)) \div 2,
     found |-> TRUE]

\* the patterns of extract_salary that have a match in a text
MatchingPatterns(text) ==
    {k \in 1..NumSalaryPatterns : SalaryFindall(k, Lower(text)).ok}

\* C14: extract_salary returns the result of the first pattern of its list
\* that matches: min, max and (x + y) / 2 for a range x-y lpa, the value three
\* times for a single value, found false and three zeros when no pattern
\* matches; whenever found is true, min <= average <= max
C14_SalaryOfFirstPattern ==
    Did("extract_salary") =>
        /\ IF MatchingPatterns(out[1].arg.v) = {}
           THEN out[1].ret = [min_salary |-> 0, max_salary |-> 0,
                              average_salary |-> 0, found |-> FALSE]
           ELSE out[1].ret =
                    InfoOf(Captured(SalaryFindall(Min(MatchingPatterns(out[1].arg.v)),
                                                  Lower(out[1].arg.v))))
        /\ \A r \in SalaryRangeTexts :
              out[1].arg.v = "QA Tester " \o r.text =>
                  out[1].ret = [min_salary |-> Min2(r.x, r.y),
                                max_salary |-> Max2(r.x, r.y),
                                average_salary |-> (r.x + r.y) \div 2, found |-> TRUE]
        /\ \A r \in SalaryValueTexts :
              out[1].arg.v = "QA Tester " \o r.text =>
                  out[1].ret = [min_salary |-> r.x, max_salary |-> r.x,
                                average_salary |-> r.x, found |-> TRUE]
        /\ \A t \in SalaryPlainTexts :
              out[1].arg.v = "QA Tester " \o t => ~out[1].ret.found
        /\ out[1].ret.found =>
              /\ out[1].ret.min_salary <= out[1].ret.average_salary
              /\ out[1].ret.average_salary <= out[1].ret.max_salary

\* "5-8 LPA": minimum 5, maximum 8, average 6.5
C14_Witness ==
    /\ Did("extract_salary")
    /\ out[1].arg = Str("QA Tester 5-8 LPA")
    /\ out[1].ret = [min_salary |-> 5 * FloatScale, max_salary |-> 8 * FloatScale,
                     average_salary |-> (13 * FloatScale) \div 2, found |-> TRUE]

(***************************************************************************)
(* The contact extractor                                                   *)
(***************************************************************************)
\* the list the last call of extract_hr_contacts returned, and the
\* candidates its try block had appended, in the order of appending
Contacts == out[1].ret.result
Candidates == out[1].ret.contacts

Rank(confidence) ==
    CASE confidence = "high" -> 3 [] confidence = "medium" -> 2 [] confidence = "low" -> 1

Phase(source) ==
    CASE source = "domain_pattern" -> 1 [] source = "job_description" -> 2
      [] source = "location_pattern" -> 3

\* the candidates with a valid address that no earlier candidate carries
Distinct == {k \in DOMAIN Candidates :
                /\ is_valid_email(Candidates[k].email)
                /\ \A j \in 1..(k - 1) : Candidates[j].email # Candidates[k].email}

\* the first three of them
FirstDistinct == {k \in Distinct : Cardinality({j \in Distinct : j < k}) < 3}

\* the candidates with a valid address that is not among the returned ones
LeftOut == {k \in DOMAIN Candidates :
               /\ is_valid_email(Candidates[k].email)
               /\ \A i \in DOMAIN Contacts : Contacts[i].email # Candidates[k].email}

\* C15: the list extract_hr_contacts returns holds at most 3 contacts, and no
\* two of them have addresses that are equal when letter case is ignored
C15_AtMostThreeDistinct ==
    Did("extract_hr_contacts") =>
        /\ Len(Contacts) <= 3
        /\ \A i, j \in DOMAIN Contacts :
              i # j => Lower(Contacts[i].email) # Lower(Contacts[j].email)

\* three contacts returned out of more valid candidates
C15_Witness ==
    /\ Did("extract_hr_contacts")
    /\ Len(Contacts) = 3
    /\ Cardinality(Distinct) > 3

DomainsOf(job_data) ==
    generate_company_domains(clean_company_name(Get(job_data, "company")).value)

\* C17: the candidates are generated as the domain_pattern contacts (for each
\* generated domain in order, the local parts hr, careers, jobs, recruitment,
\* hiring, talent), then the job_description contacts, then the
\* location_pattern contact; the returned contacts are the first 3 distinct
\* valid candidates, in the order of their generation
C17_FirstThreeInGenerationOrder ==
    Did("extract_hr_contacts") =>
        /\ \A i, j \in DOMAIN Candidates :
              i < j => Phase(Candidates[i].source) <= Phase(Candidates[j].source)
        /\ \A k \in DOMAIN Candidates :
              Candidates[k].source = "domain_pattern" =>
                  Candidates[k].email =
                      hr_patterns[((k - 1) % 6) + 1] \o "@"
                          \o DomainsOf(out[1].arg)[((k - 1) \div 6) + 1]
        /\ Cardinality({k \in DOMAIN Candidates :
                           Candidates[k].source = "location_pattern"}) <= 1
        /\ Len(Contacts) = Cardinality(FirstDistinct)
        /\ \A k \in FirstDistinct :
              Contacts[Cardinality({j \in FirstDistinct : j <= k})] = Candidates[k]

\* hr, careers and jobs at the first domain, out of candidates of all three
\* sources
C17_Witness ==
    /\ Did("extract_hr_contacts")
    /\ Len(Contacts) = 3
    /\ Contacts[1].email = "hr@tech\\.com"
    /\ Contacts[2].email = "careers@tech\\.com"
    /\ Contacts[3].email = "jobs@tech\\.com"
    /\ {Candidates[k].source : k \in DOMAIN Candidates}
           = {"domain_pattern", "job_description", "location_pattern"}

\* C18: for a record whose description is "contact: careers@acme.com and
\* noreply@acme.com", with or without a company name, extract_hr_contacts
\* returns careers@acme.com tagged high / job_description and does not
\* return noreply@acme.com
C18_DescriptionAddressReturned ==
    (/\ Did("extract_hr_contacts")
     /\ out[1].arg.t = "dict"
     /\ Get(out[1].arg, "description") = Str(ScenarioE)) =>
        /\ \E i \in DOMAIN Contacts :
              /\ Contacts[i].email = "careers@acme.com"
              /\ Contacts[i].confidence = "high"
              /\ Contacts[i].source = "job_description"
        /\ \A i \in DOMAIN Contacts : Contacts[i].email # "noreply@acme.com"

\* C19: a call of extract_hr_contacts whose try block ended in a fault
\* returns the empty list
C19_FaultYieldsEmptyList ==
    (Did("extract_hr_contacts") /\ out[1].ret.fault # <<>>) => Contacts = <<>>

\* C20: clean_company_name returns a text of letters and digits only, it is
\* "techcorp" for "TechCorp Solutions Pvt Ltd", and every domain generated
\* for that company starts with "techcorp"
C20_CleanToken ==
    /\ (Did("clean_company_name") /\ out[1].arg.t = "str") =>
          /\ ~Raised(out[1].ret)
          /\ \A i \in 1..Len(out[1].ret.value) : IsAlnum(At(out[1].ret.value, i))
          /\ out[1].arg = Str("TechCorp Solutions Pvt Ltd")
                => out[1].ret.value = "techcorp"
    /\ (/\ Did("generate_company_domains")
        /\ out[1].arg = Str("TechCorp Solutions Pvt Ltd")) =>
          /\ out[1].ret # <<>>
          /\ \A d \in DOMAIN out[1].ret : StartsWith(out[1].ret[d], "techcorp")

\* the clean token of the company the last call generated domains for
CleanToken == clean_company_name(out[1].arg).value

\* the substitutions of generate_company_domains
Substitutions ==
    {<<"technologies", "tech">>, <<"solutions", "sol">>, <<"systems", "sys">>}

\* C21: generate_company_domains returns at most 5 domains, none for an empty
\* clean token, and for a clean token that contains "technologies",
\* "solutions" or "systems" at least one returned domain is built from the
\* token with tech, sol or sys substituted
C21_VariantDomainReturned ==
    Did("generate_company_domains") =>
        /\ Len(out[1].ret) <= 5
        /\ CleanToken = "" => out[1].ret = <<>>
        /\ \A w \in Substitutions :
              Contains(w[1], CleanToken) =>
                  \E d \in DOMAIN out[1].ret :
                      out[1].ret[d] \in {Replace(CleanToken, w[1], w[2]) \o ".com",
                                         Replace(CleanToken, w[1], w[2]) \o ".in"}

(***************************************************************************)
(* Configuration                                                           *)
(***************************************************************************)
\* a parsed configuration file that holds every required field
CompleteConfig(config) ==
    /\ {"job_preferences", "keywords", "resume_files"} \subseteq DOMAIN config
    /\ {"min_salary_lpa", "max_salary_lpa", "locations"}
          \subseteq DOMAIN config["job_preferences"]
    /\ {"positive", "negative", "fresher_friendly"} \subseteq DOMAIN config["keywords"]
    /\ {"qa_automation", "qa_entry", "qa_general"} \subseteq DOMAIN config["resume_files"]

ConfigKeys ==
    {"job_preferences", "keywords", "resume_files", "min_salary_lpa", "max_salary_lpa",
     "locations", "positive", "negative", "fresher_friendly", "qa_automation",
     "qa_entry", "qa_general"}

\* C22: a JobFilter exists only for a configuration that holds every required
\* field (the three keyword lists, min and max salary, the target locations,
\* the resume-file mapping), so that max_salary is the configured one, and no
\* call of filter_job ends in the fault of a missing configuration field
C22_IncompleteConfigIsFatal ==
    /\ ~Raised(filter) =>
          /\ CompleteConfig(filter.config)
          /\ filter.max_salary = filter.config["job_preferences"]["max_salary_lpa"]
    /\ (Called /\ last[1].fault # <<>>) =>
          last[1].fault[1] \notin {KeyError(k) : k \in ConfigKeys}

(***************************************************************************)
(* The resume of a result                                                  *)
(***************************************************************************)
\* C23: in every result of filter_job resume_to_use is non-empty if and only
\* if is_relevant is true; select_resume is invoked only after all four checks
\* passed; an accepted result names one of the configured resume files; a
\* rejected or faulted result has resume_to_use '' and relevance_score 0
C23_ResumeIffRelevant ==
    Called =>
        /\ last[1].result.resume_to_use # "" <=> last[1].result.is_relevant
        /\ Invoked("select_resume") => \A i \in 1..4 : Passed(i)
        /\ last[1].result.is_relevant =>
              /\ Invoked("select_resume")
              /\ \E key \in DOMAIN filter.config["resume_files"] :
                    last[1].result.resume_to_use = filter.config["resume_files"][key]
        /\ ~last[1].result.is_relevant =>
              /\ last[1].result.resume_to_use = ""
              /\ last[1].result.relevance_score = 0

\* an accepted result that names the entry-level resume
C23_Witness ==
    /\ Called
    /\ last[1].result.is_relevant
    /\ last[1].result.resume_to_use = "Mani_QA3.pdf"
    /\ last[1].result.relevance_score > 0

(***************************************************************************)
(* The summary of a batch                                                  *)
(***************************************************************************)
RECURSIVE SumOf(_)
SumOf(counts) ==
    IF DOMAIN counts = {} THEN 0
    ELSE LET r == CHOOSE r \in DOMAIN counts : TRUE
         IN counts[r] + SumOf([x \in DOMAIN counts \ {r} |-> counts[x]])

\* C24: get_filter_summary over a list of job records, records that fault
\* inside filter_job included, returns a summary in which relevant_jobs plus
\* the sum of the rejection_reasons counts equals total_jobs, the length of
\* the list; relevant_job_list holds exactly the accepted records in input
\* order; the rate is that of relevant_jobs in total_jobs, 0 for an empty list
C24_SummaryCounts ==
    Did("get_filter_summary") =>
        /\ out[1].ret.total_jobs = Len(jobs)
        /\ out[1].ret.relevant_jobs + SumOf(out[1].ret.rejection_reasons) = Len(jobs)
        /\ out[1].ret.relevant_job_list
              = SelectSeq(jobs, LAMBDA j : filter_job(filter, j).result.is_relevant)
        /\ out[1].ret.relevant_jobs = Len(out[1].ret.relevant_job_list)
        /\ \A r \in DOMAIN out[1].ret.rejection_reasons :
              out[1].ret.rejection_reasons[r]
                  = Cardinality({i \in DOMAIN jobs :
                        /\ ~filter_job(filter, jobs[i]).result.is_relevant
                        /\ filter_job(filter, jobs[i]).result.reason = r})
        /\ jobs = <<>> => out[1].ret.relevance_rate = 0
        /\ out[1].ret.relevant_jobs = Len(jobs) /\ jobs # <<>>
              => out[1].ret.relevance_rate = 100 * 100

\* a batch of an accepted record and two records that fault the same way
C24_Witness ==
    /\ Did("get_filter_summary")
    /\ out[1].ret.total_jobs = 3
    /\ out[1].ret.relevant_jobs = 1
    /\ out[1].ret.relevance_rate = 3333
    /\ \E r \in DOMAIN out[1].ret.rejection_reasons :
          /\ StartsWith(r, "Error filtering job: ")
          /\ out[1].ret.rejection_reasons[r] = 2

(***************************************************************************)
(* The Easy-Apply loop                                                     *)
(***************************************************************************)
\* C27: in apply_to_linkedin_job the form loop makes at most 8 passes
\* whatever page states it meets; a pass either ends the loop or raises
\* current_step by 1; steps_completed is never above 8; the status is
\* 'success' only after a pass that found a Submit/Review button
C27_EasyApplyLoopBounded ==
    Did("apply_to_linkedin_job") /\ out[1].form # <<>> =>
        /\ out[1].iterations <= 8
        /\ out[1].form[1].result.steps_completed <= 8
        /\ out[1].form[1].running => out[1].form[1].current_step < max_steps
        /\ out[1].iterations > 0 =>
              \/ ~out[1].form[1].running
              \/ out[1].form[1].current_step = out[1].before + 1
        /\ out[1].iterations > 0 /\ out[1].form[1].current_step # out[1].before =>
              out[1].form[1].current_step = out[1].before + 1
        /\ out[1].form[1].result.status = "success" =>
              /\ out[1].iterations > 0
              /\ SubmitDetected(out[1].page)
              /\ ~out[1].form[1].running

\* seven Next pages and then a Submit page: the eighth pass submits
C27_Witness ==
    /\ Did("apply_to_linkedin_job") /\ out[1].form # <<>>
    /\ out[1].iterations = 8
    /\ out[1].form[1].result.status = "success"
    /\ out[1].form[1].result.steps_completed = 8
    /\ applicator.application_count = 1

(***************************************************************************)
(* The applicator's daily limit and dispatch                               *)
(***************************************************************************)
\* the results of the last call with status 'success'
Successes == {i \in DOMAIN out[1].ret : out[1].ret[i].status = "success"}

\* C25: over repeated apply_to_jobs calls on one applicator application_count
\* never exceeds daily_limit; a call raises the counter by the number of its
\* results with status 'success', each such result by exactly 1 and every
\* other result by 0; no site-specific apply operation starts while
\* application_count >= daily_limit
C25_CountWithinLimit ==
    /\ applicator.application_count <= applicator.daily_limit
    /\ Did("apply_to_jobs") =>
          /\ applicator.application_count = out[1].before + Cardinality(Successes)
          /\ Len(out[1].calls) = Len(out[1].ret)
          /\ \A i \in DOMAIN out[1].calls :
                /\ out[1].calls[i].after - out[1].calls[i].before
                      = (IF out[1].ret[i].status = "success" THEN 1 ELSE 0)
                /\ out[1].calls[i].op # "" =>
                      out[1].calls[i].before < applicator.daily_limit

\* a call that stops at the limit: the first record is applied to with
\* success, the second, equally acceptable, is not reached
C25_Witness ==
    /\ Did("apply_to_jobs")
    /\ Len(jobs) = 2
    /\ \A i \in DOMAIN jobs : out[1].filter_results[i].is_relevant
    /\ Len(out[1].ret) = 1
    /\ out[1].ret[1].status = "success"
    /\ out[1].fault = <<>>
    /\ out[1].before = 0
    /\ applicator.application_count = 1
    /\ applicator.daily_limit = 1

\* C26: apply_to_jobs hands no record to an apply operation that filter_job
\* does not accept; every result carries a filter_result with is_relevant
\* true; a record of source LinkedIn, Naukri or Indeed goes to the operation
\* of that site; a record of another source gets status 'unsupported' and
\* leaves application_count as it was
C26_OnlyAcceptedDispatched ==
    Did("apply_to_jobs") =>
        /\ \A i \in DOMAIN out[1].ret : out[1].ret[i].filter_result.is_relevant
        /\ \A i \in DOMAIN out[1].calls :
              LET job_data == jobs[out[1].calls[i].job]
              IN  /\ out[1].ret[i].filter_result = out[1].filter_results[out[1].calls[i].job]
                  /\ out[1].ret[i].filter_result.is_relevant
                  /\ job_data.v["source"] = Str("LinkedIn")
                        <=> out[1].calls[i].op = "apply_to_linkedin_job"
                  /\ job_data.v["source"] = Str("Naukri")
                        <=> out[1].calls[i].op = "apply_to_naukri_job"
                  /\ job_data.v["source"] = Str("Indeed")
                        <=> out[1].calls[i].op = "apply_to_indeed_job"
                  /\ out[1].calls[i].op = "" <=> out[1].ret[i].status = "unsupported"
                  /\ out[1].calls[i].op = "" =>
                        out[1].calls[i].after = out[1].calls[i].before
        /\ \A i, k \in DOMAIN out[1].calls : i < k => out[1].calls[i].job < out[1].calls[k].job

\* a call on a rejected record followed by a record of an unsupported
\* source: one result, 'unsupported', for the second record
C26_Witness ==
    /\ Did("apply_to_jobs")
    /\ Len(jobs) = 2
    /\ ~out[1].filter_results[1].is_relevant
    /\ Len(out[1].ret) = 1
    /\ out[1].calls[1].job = 2
    /\ out[1].ret[1].status = "unsupported"
    /\ out[1].ret[1].reason = "Source Glassdoor not supported yet"

(***************************************************************************)
(* The e-mail sender's daily limit                                         *)
(***************************************************************************)
\* C28: over repeated send_job_application_emails calls on one EmailManager
\* email_count never exceeds daily_limit; at most 2 contacts of a record are
\* written to; the counter grows by 1 for each result, all of which have
\* success true, and by nothing else; no result is produced once email_count
\* has reached daily_limit
C28_EmailsWithinLimit ==
    /\ emailer.email_count <= emailer.daily_limit
    /\ Did("send_job_application_emails") =>
          /\ emailer.email_count = out[1].before + Len(out[1].email_results)
          /\ Len(out[1].log) = Len(out[1].email_results)
          /\ \A k \in DOMAIN out[1].email_results : out[1].email_results[k].success
          /\ \A i \in DOMAIN jobs :
                Cardinality({k \in DOMAIN out[1].log : out[1].log[k].job = i}) <= 2
          /\ \A k \in DOMAIN out[1].log :
                /\ out[1].log[k].before < emailer.daily_limit
                /\ out[1].log[k].after = out[1].log[k].before + 1
          /\ out[1].before >= emailer.daily_limit => out[1].email_results = <<>>

\* a call on two records of three contacts each with a limit of 3: two
\* contacts of the first record and one of the second are written to
C28_Witness ==
    /\ Did("send_job_application_emails")
    /\ Len(jobs) = 2
    /\ Len(extract_hr_contacts(jobs[1]).result) = 3
    /\ Len(extract_hr_contacts(jobs[2]).result) = 3
    /\ emailer.daily_limit = 3
    /\ out[1].before = 0
    /\ emailer.email_count = 3
    /\ Len(out[1].email_results) = 3
    /\ out[1].log[2].job = 1 /\ out[1].log[3].job = 2

(***************************************************************************)
(* The bot's daily quota                                                   *)
(***************************************************************************)
\* C29: with morning_applications <= max_applications, whatever morning and
\* evening runs take place within one day, applications_attempted never
\* exceeds max_applications; the evening run hands the applicator at most
\* min(evening_applications, max_applications - applications_attempted)
\* records, none when that remainder is not positive, and the morning run at
\* most morning_applications records
C29_AttemptedWithinMax ==
    bot.now < HoursPerDay =>
        /\ bot.self.daily_stats.applications_attempted
              <= bot.self.config["daily_limits"]["max_applications"]
        /\ Did("evening_routine") =>
              /\ out[1].quota <= 0 => out[1].handed = 0
              /\ out[1].quota > 0 =>
                    out[1].handed
                       <= Min2(bot.self.config["daily_limits"]["evening_applications"],
                               out[1].quota)
        /\ Did("morning_routine") =>
              out[1].handed <= bot.self.config["daily_limits"]["morning_applications"]

(***************************************************************************)
(* The scraper's urls                                                      *)
(***************************************************************************)
\* the positions of a list whose record is the first with its url
FirstSeen(job_list) ==
    {i \in DOMAIN job_list :
        \A k \in 1..(i - 1) : Get(job_list[k], "url") # Get(job_list[i], "url")}

\* the records of kept from the i-th on are records of job_list from the k-th
\* on, in the same order
RECURSIVE InOrder(_, _, _, _)
InOrder(kept, i, job_list, k) ==
    IF i > Len(kept) THEN TRUE
    ELSE IF k > Len(job_list) THEN FALSE
    ELSE IF kept[i] = job_list[k] THEN InOrder(kept, i + 1, job_list, k + 1)
    ELSE InOrder(kept, i, job_list, k + 1)

\* C30: over any sequence of calls of the four site scrapers, scrape_all_sites
\* and search_specific_keywords on one JobScraper no url is returned more than
\* once; what scrape_all_sites returns has no two records with the same
\* non-empty url and keeps the records in the order they were first seen
C30_NoUrlReturnedTwice ==
    out # <<>> =>
        /\ out[1].repeated = {}
        /\ out[1].returned \subseteq scraper.self.scraped_urls
        /\ \A i, k \in DOMAIN out[1].ret :
              i # k /\ Truthy(Get(out[1].ret[i], "url"))
                 => Get(out[1].ret[i], "url") # Get(out[1].ret[k], "url")
        /\ Did("scrape_all_sites") =>
              /\ \A i \in DOMAIN out[1].all_jobs :
                    Truthy(Get(out[1].all_jobs[i], "url")) /\ i \in FirstSeen(out[1].all_jobs)
                       => \E k \in DOMAIN out[1].ret : out[1].ret[k] = out[1].all_jobs[i]
              /\ InOrder(out[1].ret, 1, out[1].all_jobs, 1)

\* a second scrape_all_sites on unchanged listings: the first call returned
\* records, the second returns none of them again
C30_Witness ==
    /\ Did("scrape_all_sites")
    /\ out[1].ret = <<>>
    /\ Cardinality(out[1].returned) >= 3
    /\ Len(scraper.web["Hyderabad"]) = MaxCards
====
